---- MODULE Spec2Model ----
(***************************************************************************)
(* Verification model of the Tally accounting normalisation engine:        *)
(* src/src/tally_client.py (Voucher Extractor, masters) and the trial      *)
(* balance builders of src/src/dashboard.py.                               *)
(*                                                                         *)
(* Calendar dates are modelled as the integer YYYYMMDD (year*10000 +       *)
(* month*100 + day), which orders exactly as datetime.date does.  Money    *)
(* amounts are integers counting hundredths of the currency unit.  Texts   *)
(* read from XML are sequences of Unicode code points.                     *)
(***************************************************************************)
EXTENDS Integers, Sequences, FiniteSets, TLC

(***************************************************************************)
(* Bounds of the model.                                                    *)
(***************************************************************************)
MaxVouchers == 2
MaxEntries == 2
MaxLedgers == 2
MaxVoucherElements == 2
MaxEntryElements == 2

(***************************************************************************)
(* Input domains.                                                          *)
(***************************************************************************)
LedgerNames == {"Cash", "bank"}
Amounts == {5}
Dates == {20230331, 20230401, 20230615}
Openings == {0, 10}
ParentNames == {"Current Assets"}

\* Unicode code points of the names the model uses (str comparison in Python
\* is by code point).
CodePoints ==
  [Cash |-> <<67, 97, 115, 104>>,
   bank |-> <<98, 97, 110, 107>>]

VARIABLES
  ledger_rows,    \* what _load_ledger_master returns
  group_rows,     \* what _load_group_master returns
  vouchers,       \* what _load_daybook returns (list of Voucher)
  tb,             \* outcome of the last _build_dynamic_trial_balance
  ytd,            \* outcome of the last _build_ytd_trial_balance
  response,       \* what Tally answers to the Day Book request
  fetched,        \* outcome of the last fetch_daybook
  opening_raw,    \* an OPENINGBALANCE text of a ledger master document
  opening_norm,   \* outcome of _normalize_drcr on it
  group_node,     \* the fields of a GROUP element of a group master document
  group_row,      \* the row _parse_group_master makes of it
  tally,          \* how Tally answers the requests of one client call
  call,           \* outcome of one client call (fetch_* operation)
  overview_tb,    \* the YTD trial balance the overview cards are rendered from
  stock,          \* the opening and closing stock the user entered
  kpis,           \* what _render_ytd_overview_cards computes
  fy_anchor,      \* a date given to _fiscal_year_start
  fy_start,       \* outcome of _fiscal_year_start on it
  fy_again,       \* outcome of _fiscal_year_start on that outcome
  raw_resp,       \* a response body given to _clean_tally_xml (or None)
  clean_resp,     \* outcome of _clean_tally_xml on it
  statement_tb,   \* the dynamic trial balance a statement is made from
  pnl,            \* outcome of _statement_from_tb(tb_df, "P&L")
  period,         \* the start and end dates of a Day Book load (or None)
  loaded          \* outcome of the Day Book load

vars ==
  <<ledger_rows, group_rows, vouchers, tb, ytd, response, fetched,
    opening_raw, opening_norm, group_node, group_row, tally, call,
    overview_tb, stock, kpis, fy_anchor, fy_start, fy_again, raw_resp, clean_resp,
    statement_tb, pnl, period, loaded>>

sessionVars == <<ledger_rows, group_rows, vouchers, tb, ytd>>

daybookVars == <<response, fetched>>

normalizeVars == <<opening_raw, opening_norm>>

classifyVars == <<group_node, group_row>>

clientVars == <<tally, call>>

overviewVars == <<overview_tb, stock, kpis>>

fiscalVars == <<fy_anchor, fy_start, fy_again>>

cleanVars == <<raw_resp, clean_resp>>

statementVars == <<statement_tb, pnl>>

loadVars == <<period, loaded>>

reportVars == <<overviewVars, fiscalVars, cleanVars, statementVars, loadVars>>

(***************************************************************************)
(* Generic helpers.                                                        *)
(***************************************************************************)
SeqsUpTo(S, n) == UNION {[1..k -> S] : k \in 0..n}

NonEmptySeqsUpTo(S, n) == UNION {[1..k -> S] : k \in 1..n}

RECURSIVE SumSeq(_)
SumSeq(s) == IF s = <<>> THEN 0 ELSE Head(s) + SumSeq(Tail(s))

Abs(x) == IF x < 0 THEN -x ELSE x

\* str.lower() on one code point (ASCII letters).
LowerCode(c) == IF c >= 65 /\ c <= 90 THEN c + 32 ELSE c

LowerCodes(cs) == [i \in 1..Len(cs) |-> LowerCode(cs[i])]

\* Python's sequence comparison a < b on code point lists.
RECURSIVE CodesLess(_, _)
CodesLess(a, b) ==
  IF b = <<>> THEN FALSE
  ELSE IF a = <<>> THEN TRUE
  ELSE IF Head(a) # Head(b) THEN Head(a) < Head(b)
  ELSE CodesLess(Tail(a), Tail(b))

StrLess(a, b) == CodesLess(CodePoints[a], CodePoints[b])

StrLowerLess(a, b) == CodesLess(LowerCodes(CodePoints[a]), LowerCodes(CodePoints[b]))

(***************************************************************************)
(* tally_client._fiscal_year_start                                         *)
(***************************************************************************)
DateYear(d) == d \div 10000

DateMonth(d) == (d \div 100) % 100

MkDate(y, m, d) == y * 10000 + m * 100 + d

\* Mutant: March already belongs to the fiscal year of its calendar year.
_fiscal_year_start_from_march(anchor) ==
  LET year == IF DateMonth(anchor) >= 3 THEN DateYear(anchor) ELSE DateYear(anchor) - 1
  IN  MkDate(year, 4, 1)

\* Mutant: the fiscal year always starts in the previous calendar year.
_fiscal_year_start_previous_year(anchor) == MkDate(DateYear(anchor) - 1, 4, 1)

_fiscal_year_start(anchor) ==
  LET year == IF DateMonth(anchor) >= 4 THEN DateYear(anchor) ELSE DateYear(anchor) - 1
  IN  MkDate(year, 4, 1)

(***************************************************************************)
(* dashboard._voucher_dataframe: one row per (voucher, entry).             *)
(***************************************************************************)
VoucherRow(voucher, entry) ==
  LET debit_amount == IF entry.is_debit THEN entry.amount ELSE 0
      credit_amount == IF ~entry.is_debit THEN entry.amount ELSE 0
      corrected_debit == credit_amount
      corrected_credit == debit_amount
  IN  [Date |-> voucher.date,
       Ledger |-> entry.ledger_name,
       Debit |-> corrected_debit,
       Credit |-> corrected_credit,
       Nett |-> corrected_debit - corrected_credit]

RECURSIVE _voucher_dataframe(_)
_voucher_dataframe(vs) ==
  IF vs = <<>> THEN <<>>
  ELSE [i \in 1..Len(Head(vs).ledger_entries) |->
          VoucherRow(Head(vs), Head(vs).ledger_entries[i])]
       \o _voucher_dataframe(Tail(vs))

(***************************************************************************)
(* Python dict built from a list of rows keyed by one column: keys keep    *)
(* the order of their first insertion, a later row replaces the value.     *)
(***************************************************************************)
\* Mutant: one key per row, a repeated key is not merged.
DictKeysUnmerged(rows, key) == [i \in 1..Len(rows) |-> rows[i][key]]

RECURSIVE DictKeys(_, _)
DictKeys(rows, key) ==
  IF rows = <<>> THEN <<>>
  ELSE LET init == DictKeys(SubSeq(rows, 1, Len(rows) - 1), key)
           k == rows[Len(rows)][key]
       IN  IF \E i \in 1..Len(init) : init[i] = k THEN init ELSE Append(init, k)

DictHas(rows, key, k) == \E i \in 1..Len(rows) : rows[i][key] = k

\* The row the dict holds for k (the last one inserted); only used when DictHas.
DictRow(rows, key, k) ==
  LET last == CHOOSE i \in 1..Len(rows) :
                /\ rows[i][key] = k
                /\ \A j \in (i + 1)..Len(rows) : rows[j][key] # k
  IN  rows[last]

(***************************************************************************)
(* pandas: boolean-mask selection, groupby("Ledger")["Nett"].sum() with    *)
(* Series.get(name, 0.0), and sort_values("LedgerName").                   *)
(***************************************************************************)
RECURSIVE NettSum(_, _)
NettSum(df, ledger) ==
  IF df = <<>> THEN 0
  ELSE (IF Head(df).Ledger = ledger THEN Head(df).Nett ELSE 0) + NettSum(Tail(df), ledger)

\* Mutant: the names are compared without regard to letter case.
RECURSIVE InsertByLedgerNameLower(_, _)
InsertByLedgerNameLower(sorted, row) ==
  IF sorted = <<>> THEN <<row>>
  ELSE IF StrLowerLess(row.LedgerName, Head(sorted).LedgerName)
       THEN <<row>> \o sorted
       ELSE <<Head(sorted)>> \o InsertByLedgerNameLower(Tail(sorted), row)

RECURSIVE InsertByLedgerName(_, _)
InsertByLedgerName(sorted, row) ==
  IF sorted = <<>> THEN <<row>>
  ELSE IF StrLess(row.LedgerName, Head(sorted).LedgerName)
       THEN <<row>> \o sorted
       ELSE <<Head(sorted)>> \o InsertByLedgerName(Tail(sorted), row)

RECURSIVE SortByLedgerName(_)
SortByLedgerName(rows) ==
  IF rows = <<>> THEN <<>>
  ELSE InsertByLedgerName(SortByLedgerName(SubSeq(rows, 1, Len(rows) - 1)), rows[Len(rows)])

(***************************************************************************)
(* Classification columns a trial-balance row takes from the group master: *)
(* group_info = group_map.get(parent, {}), then group_info.get(col, "").   *)
(***************************************************************************)
LedgerParentOf(ledgers, ledger_name) ==
  LET p == DictRow(ledgers, "LedgerName", ledger_name).LedgerParent
  IN  IF p = "" THEN "(Unknown)" ELSE p

GroupInfoGet(groups, parent, column, default) ==
  IF DictHas(groups, "GroupName", parent)
  THEN DictRow(groups, "GroupName", parent)[column]
  ELSE default

(***************************************************************************)
(* dashboard._build_dynamic_trial_balance                                  *)
(***************************************************************************)
\* Mutant: the pre-window loses the first day of the fiscal year.
t2_mask_after_fiscal_start(d, fiscal_start, from_date) == d > fiscal_start /\ d < from_date

\* Mutant: the in-window loses its last day.
in_range_mask_before_to(d, from_date, to_date) == d >= from_date /\ d < to_date

\* Mutant: the pre-window also takes the window's first day.
t2_mask_through_from(d, fiscal_start, from_date) == d >= fiscal_start /\ d <= from_date

\* (Date >= fiscal_start) & (Date < from_date)
t2_mask(d, fiscal_start, from_date) == d >= fiscal_start /\ d < from_date

\* (Date >= from_date) & (Date <= to_date)
in_range_mask(d, from_date, to_date) == d >= from_date /\ d <= to_date

DynamicRow(ledgers, groups, nets_t2, nets_in_range, ledger_name) ==
  LET opening == DictRow(ledgers, "LedgerName", ledger_name).OpeningBalanceNormalized
      parent == LedgerParentOf(ledgers, ledger_name)
      t2_dynamic_ob == NettSum(nets_t2, ledger_name)
      t2_dynamic_clb == NettSum(nets_in_range, ledger_name)
      dynamic_opening == opening + t2_dynamic_ob
      dynamic_closing == dynamic_opening + t2_dynamic_clb
  IN  [LedgerName |-> ledger_name,
       GroupName |-> parent,
       ParentName |-> GroupInfoGet(groups, parent, "ParentName", parent),
       BS_or_PnL |-> GroupInfoGet(groups, parent, "BS_or_PnL", ""),
       Type |-> GroupInfoGet(groups, parent, "Type", ""),
       AffectsGrossProfit |-> GroupInfoGet(groups, parent, "AffectsGrossProfit", ""),
       OpeningBalance |-> opening,
       T2DynamicOB |-> t2_dynamic_ob,
       DynamicOpening |-> dynamic_opening,
       T2DynamicCLB |-> t2_dynamic_clb,
       DynamicClosing |-> dynamic_closing]

NoTb == [status |-> "none", from_date |-> 0, to_date |-> 0, tb_df |-> <<>>, voucher_df |-> <<>>]

_build_dynamic_trial_balance(ledgers, groups, day_book, from_date, to_date) ==
  LET fiscal_start == _fiscal_year_start(from_date)
      voucher_df == _voucher_dataframe(day_book)
  IN  IF voucher_df = <<>>
      THEN [status |-> "error", from_date |-> from_date, to_date |-> to_date,
            tb_df |-> <<>>, voucher_df |-> <<>>]
      ELSE LET filtered == SelectSeq(voucher_df, LAMBDA r : r.Date >= fiscal_start)
               nets_t2 == SelectSeq(filtered,
                            LAMBDA r : t2_mask(r.Date, fiscal_start, from_date))
               nets_in_range == SelectSeq(filtered,
                                  LAMBDA r : in_range_mask(r.Date, from_date, to_date))
               names == DictKeys(ledgers, "LedgerName")
               rows == [i \in 1..Len(names) |->
                          DynamicRow(ledgers, groups, nets_t2, nets_in_range, names[i])]
           IN  [status |-> "ok", from_date |-> from_date, to_date |-> to_date,
                tb_df |-> SortByLedgerName(rows), voucher_df |-> filtered]

(***************************************************************************)
(* dashboard._build_ytd_trial_balance                                      *)
(***************************************************************************)
\* Mutant: the movement is summed over the fiscal year of the last line only.
YtdRowSinceFiscalStart(ledgers, groups, voucher_df, ledger_name) ==
  LET opening == DictRow(ledgers, "LedgerName", ledger_name).OpeningBalanceNormalized
      parent == LedgerParentOf(ledgers, ledger_name)
      nett_ytd == NettSum(SelectSeq(voucher_df,
                            LAMBDA r : r.Date >= _fiscal_year_start(voucher_df[Len(voucher_df)].Date)),
                          ledger_name)
  IN  [LedgerName |-> ledger_name,
       GroupName |-> parent,
       ParentName |-> GroupInfoGet(groups, parent, "ParentName", parent),
       BS_or_PnL |-> GroupInfoGet(groups, parent, "BS_or_PnL", ""),
       Type |-> GroupInfoGet(groups, parent, "Type", ""),
       AffectsGrossProfit |-> GroupInfoGet(groups, parent, "AffectsGrossProfit", ""),
       OpeningBalance |-> opening,
       NettYTD |-> nett_ytd,
       YTDCLB |-> opening + nett_ytd]

YtdRow(ledgers, groups, voucher_df, ledger_name) ==
  LET opening == DictRow(ledgers, "LedgerName", ledger_name).OpeningBalanceNormalized
      parent == LedgerParentOf(ledgers, ledger_name)
      nett_ytd == NettSum(voucher_df, ledger_name)
  IN  [LedgerName |-> ledger_name,
       GroupName |-> parent,
       ParentName |-> GroupInfoGet(groups, parent, "ParentName", parent),
       BS_or_PnL |-> GroupInfoGet(groups, parent, "BS_or_PnL", ""),
       Type |-> GroupInfoGet(groups, parent, "Type", ""),
       AffectsGrossProfit |-> GroupInfoGet(groups, parent, "AffectsGrossProfit", ""),
       OpeningBalance |-> opening,
       NettYTD |-> nett_ytd,
       YTDCLB |-> opening + nett_ytd]

NoYtd == [status |-> "none", ytd_df |-> <<>>]

_build_ytd_trial_balance(ledgers, groups, voucher_df) ==
  IF voucher_df = <<>>
  THEN [status |-> "error", ytd_df |-> <<>>]
  ELSE LET names == DictKeys(ledgers, "LedgerName")
           rows == [i \in 1..Len(names) |-> YtdRow(ledgers, groups, voucher_df, names[i])]
       IN  [status |-> "ok", ytd_df |-> SortByLedgerName(rows)]

(***************************************************************************)
(* Text helpers (texts are sequences of code points).                      *)
(***************************************************************************)
IsDigit(c) == c >= 48 /\ c <= 57

\* str.strip() removes leading and trailing whitespace.
IsSpace(c) == c \in {9, 10, 11, 12, 13, 32}

RECURSIVE LStrip(_)
LStrip(t) == IF t # <<>> /\ IsSpace(Head(t)) THEN LStrip(Tail(t)) ELSE t

RECURSIVE RStrip(_)
RStrip(t) ==
  IF t # <<>> /\ IsSpace(t[Len(t)]) THEN RStrip(SubSeq(t, 1, Len(t) - 1)) ELSE t

Strip(t) == RStrip(LStrip(t))

\* str.replace(",", "")
RemoveCommas(t) == SelectSeq(t, LAMBDA c : c # 44)

RECURSIVE DigitRun(_, _)
DigitRun(t, i) == IF i <= Len(t) /\ IsDigit(t[i]) THEN 1 + DigitRun(t, i + 1) ELSE 0

RECURSIVE SpaceRun(_, _)
SpaceRun(t, i) == IF i <= Len(t) /\ IsSpace(t[i]) THEN 1 + SpaceRun(t, i + 1) ELSE 0

RECURSIVE DigitsValue(_)
DigitsValue(ds) ==
  IF ds = <<>> THEN 0
  ELSE DigitsValue(SubSeq(ds, 1, Len(ds) - 1)) * 10 + (ds[Len(ds)] - 48)

\* The value, in hundredths, of the fraction digits after a decimal point
\* (the texts of the model carry at most two of them).
FractionHundredths(ds) ==
  IF ds = <<>> THEN 0
  ELSE IF Len(ds) = 1 THEN (ds[1] - 48) * 10
  ELSE (ds[1] - 48) * 10 + (ds[2] - 48)

(***************************************************************************)
(* re.match(r"(-?\d*\.?\d+)(?:\s*(Dr|Cr))?", cleaned, re.IGNORECASE):      *)
(* the number is an optional "-", a run of digits and, when a "." followed *)
(* by at least one digit comes next, that fraction; without such a         *)
(* fraction the run of digits must not be empty.                           *)
(***************************************************************************)
NumberMatch(t) ==
  LET neg == t # <<>> /\ Head(t) = 45
      p == IF neg THEN 2 ELSE 1
      n1 == DigitRun(t, p)
      q == p + n1
      n2 == IF q <= Len(t) /\ t[q] = 46 THEN DigitRun(t, q + 1) ELSE 0
      matched == n1 > 0 \/ n2 > 0
      magnitude == DigitsValue(SubSeq(t, p, q - 1)) * 100
                     + FractionHundredths(SubSeq(t, q + 1, q + n2))
      stop == IF n2 > 0 THEN q + 1 + n2 ELSE q
      r == stop + SpaceRun(t, stop)
      drcr == IF matched /\ r + 1 <= Len(t) /\ LowerCode(t[r + 1]) = 114
              THEN (IF LowerCode(t[r]) = 100 THEN "dr"
                    ELSE IF LowerCode(t[r]) = 99 THEN "cr" ELSE "")
              ELSE ""
  IN  [matched |-> matched,
       value |-> IF neg THEN 0 - magnitude ELSE magnitude,
       drcr |-> drcr]

(***************************************************************************)
(* tally_client._to_float                                                  *)
(***************************************************************************)
_to_float(value) ==
  LET cleaned == Strip(RemoveCommas(IF value = <<>> THEN <<48>> ELSE value))
      m == NumberMatch(cleaned)
  IN  IF cleaned = <<>> \/ cleaned = <<45>> THEN 0
      ELSE IF ~m.matched THEN 0
      ELSE IF m.drcr = "cr" THEN 0 - Abs(m.value)
      ELSE IF m.drcr = "dr" THEN Abs(m.value)
      ELSE m.value

(***************************************************************************)
(* tally_client._normalize_drcr (same pattern as _to_float; a value        *)
(* without Dr/Cr marker is negated).                                       *)
(***************************************************************************)
\* Mutant: with a Dr/Cr marker the sign of the number as written is kept.
_normalize_drcr_sign_kept(value) ==
  LET m == NumberMatch(Strip(RemoveCommas(value)))
  IN  IF ~m.matched THEN 0
      ELSE IF m.drcr = "cr" THEN 0 - m.value
      ELSE IF m.drcr = "dr" THEN m.value
      ELSE 0 - m.value

\* Mutant: a value without Dr/Cr marker is returned as written.
_normalize_drcr_not_inverted(value) ==
  LET m == NumberMatch(Strip(RemoveCommas(value)))
  IN  IF ~m.matched THEN 0
      ELSE IF m.drcr = "cr" THEN 0 - Abs(m.value)
      ELSE IF m.drcr = "dr" THEN Abs(m.value)
      ELSE m.value

_normalize_drcr(value) ==
  LET m == NumberMatch(Strip(RemoveCommas(value)))
  IN  IF Strip(RemoveCommas(value)) = <<>> THEN 0
      ELSE IF ~m.matched THEN 0
      ELSE IF m.drcr = "cr" THEN 0 - Abs(m.value)
      ELSE IF m.drcr = "dr" THEN Abs(m.value)
      ELSE 0 - m.value

(***************************************************************************)
(* tally_client: group classification (classify_bs_or_pnl, classify_type,  *)
(* determine_affects_gross_profit) and the row _parse_group_master makes   *)
(* of a GROUP element.                                                     *)
(***************************************************************************)
\* The string literals of the classifiers, as code points.
Keywords ==
  [asset |-> <<97, 115, 115, 101, 116>>,
   liabilit |-> <<108, 105, 97, 98, 105, 108, 105, 116>>,
   liability |-> <<108, 105, 97, 98, 105, 108, 105, 116, 121>>,
   income |-> <<105, 110, 99, 111, 109, 101>>,
   revenue |-> <<114, 101, 118, 101, 110, 117, 101>>,
   sale |-> <<115, 97, 108, 101>>,
   sales |-> <<115, 97, 108, 101, 115>>,
   expense |-> <<101, 120, 112, 101, 110, 115, 101>>,
   purchase |-> <<112, 117, 114, 99, 104, 97, 115, 101>>,
   direct |-> <<100, 105, 114, 101, 99, 116>>,
   trading |-> <<116, 114, 97, 100, 105, 110, 103>>,
   direct_income |-> <<100, 105, 114, 101, 99, 116, 32, 105, 110, 99, 111, 109, 101>>,
   direct_expense |-> <<100, 105, 114, 101, 99, 116, 32, 101, 120, 112, 101, 110, 115, 101>>,
   yes |-> <<121, 101, 115>>,
   y |-> <<121>>,
   true |-> <<116, 114, 117, 101>>,
   no |-> <<110, 111>>,
   n |-> <<110>>,
   false |-> <<102, 97, 108, 115, 101>>]

\* token in text
Contains(text, token) ==
  \E i \in 1..(Len(text) - Len(token) + 1) : SubSeq(text, i, i + Len(token) - 1) = token

\* " ".join([a, b])
JoinWithSpace(a, b) == a \o <<32>> \o b

YesTexts == {Keywords.yes, Keywords.y, Keywords.true}

NoTexts == {Keywords.no, Keywords.n, Keywords.false}

\* Mutant: the nature is looked at before the flag.
classify_bs_or_pnl_nature_first(is_revenue, nature) ==
  IF \E token \in {Keywords.income, Keywords.expense, Keywords.purchase, Keywords.sale} :
       Contains(LowerCodes(nature), token)
  THEN "P&L"
  ELSE IF LowerCodes(Strip(is_revenue)) \in YesTexts THEN "P&L"
  ELSE "Balance Sheet"

classify_bs_or_pnl(is_revenue, nature) ==
  IF LowerCodes(Strip(is_revenue)) \in YesTexts THEN "P&L"
  ELSE IF LowerCodes(Strip(is_revenue)) \in NoTexts THEN "Balance Sheet"
  ELSE IF \E token \in {Keywords.income, Keywords.expense, Keywords.purchase, Keywords.sale} :
            Contains(LowerCodes(nature), token)
       THEN "P&L"
  ELSE "Balance Sheet"

classify_type(nature, group_name, parent_name) ==
  IF Contains(LowerCodes(nature), Keywords.asset) THEN "Asset"
  ELSE IF Contains(LowerCodes(nature), Keywords.liabilit) THEN "Liability"
  ELSE IF \E token \in {Keywords.income, Keywords.revenue, Keywords.sale} :
            Contains(LowerCodes(nature), token)
       THEN "Income"
  ELSE IF \E token \in {Keywords.expense, Keywords.purchase} :
            Contains(LowerCodes(nature), token)
       THEN "Expense"
  ELSE IF \E token \in {Keywords.income, Keywords.revenue, Keywords.sale} :
            Contains(LowerCodes(JoinWithSpace(group_name, parent_name)), token)
       THEN "Income"
  ELSE IF \E token \in {Keywords.expense, Keywords.purchase} :
            Contains(LowerCodes(JoinWithSpace(group_name, parent_name)), token)
       THEN "Expense"
  ELSE IF Contains(LowerCodes(JoinWithSpace(group_name, parent_name)), Keywords.liability)
       THEN "Liability"
  ELSE IF Contains(LowerCodes(JoinWithSpace(group_name, parent_name)), Keywords.asset)
       THEN "Asset"
  ELSE "Asset"

determine_affects_gross_profit(affects_gp_flag, nature, group_name, parent_name) ==
  IF LowerCodes(Strip(affects_gp_flag)) \in YesTexts THEN "Yes"
  ELSE IF LowerCodes(Strip(affects_gp_flag)) \in NoTexts THEN "No"
  ELSE IF \E token \in {Keywords.direct, Keywords.purchase, Keywords.sales, Keywords.sale,
                        Keywords.trading} :
            Contains(LowerCodes(nature), token)
       THEN "Yes"
  ELSE IF \E token \in {Keywords.sales, Keywords.sale, Keywords.purchase,
                        Keywords.direct_income, Keywords.direct_expense} :
            Contains(LowerCodes(JoinWithSpace(group_name, parent_name)), token)
       THEN "Yes"
  ELSE "No"

\* _first_non_empty on the one place the field is found at.
_first_non_empty(candidate) == Strip(candidate)

\* get_parent_name: the parent, or the group's own name when it is blank.
get_parent_name(node) ==
  IF _first_non_empty(node.PARENT) # <<>> THEN _first_non_empty(node.PARENT)
  ELSE _first_non_empty(node.NAME)

\* The loop body of _parse_group_master for one GROUP element with a name.
GroupRowOf(node) ==
  [done |-> TRUE,
   GroupName |-> _first_non_empty(node.NAME),
   ParentName |-> get_parent_name(node),
   BS_or_PnL |-> classify_bs_or_pnl(_first_non_empty(node.ISREVENUE),
                                    _first_non_empty(node.NATUREOFGROUP)),
   Type |-> classify_type(_first_non_empty(node.NATUREOFGROUP),
                          _first_non_empty(node.NAME), get_parent_name(node)),
   AffectsGrossProfit |->
     determine_affects_gross_profit(_first_non_empty(node.AFFECTSGROSSPROFIT),
                                    _first_non_empty(node.NATUREOFGROUP),
                                    _first_non_empty(node.NAME), get_parent_name(node))]

(***************************************************************************)
(* tally_client._parse_daybook                                             *)
(***************************************************************************)
entry_tags ==
  <<"ALLLEDGERENTRIES.LIST", "LEDGERENTRIES.LIST",
    "ALLINVENTORYENTRIES.LIST", "INVENTORYENTRIES.LIST">>

IsLeapYear(y) == (y % 4 = 0 /\ y % 100 # 0) \/ y % 400 = 0

DaysInMonth(y, m) ==
  IF m = 2 THEN (IF IsLeapYear(y) THEN 29 ELSE 28)
  ELSE IF m \in {4, 6, 9, 11} THEN 30 ELSE 31

\* date.fromisoformat(f"{t[:4]}-{t[4:6]}-{t[6:]}") on a text of 8 characters:
\* a date when these are digits naming a calendar day, ValueError otherwise.
IsoDateValid(t) ==
  /\ \A i \in 1..Len(t) : IsDigit(t[i])
  /\ LET y == DigitsValue(SubSeq(t, 1, 4))
         m == DigitsValue(SubSeq(t, 5, 6))
         d == DigitsValue(SubSeq(t, 7, 8))
     IN  y >= 1 /\ m >= 1 /\ m <= 12 /\ d >= 1 /\ d <= DaysInMonth(y, m)

IsoDate(t) ==
  MkDate(DigitsValue(SubSeq(t, 1, 4)), DigitsValue(SubSeq(t, 5, 6)),
         DigitsValue(SubSeq(t, 7, 8)))

\* entry.findtext("LEDGERNAME", "") or entry.findtext("STOCKITEMNAME", "")
\* or "(Unknown Ledger)"
EntryLedger(entry) ==
  IF entry.LEDGERNAME # "" THEN entry.LEDGERNAME
  ELSE IF entry.STOCKITEMNAME # "" THEN entry.STOCKITEMNAME
  ELSE "(Unknown Ledger)"

DeemedText(entry) == LowerCodes(Strip(entry.ISDEEMEDPOSITIVE))

DeemedNo == {<<110, 111>>, <<110>>, <<102, 97, 108, 115, 101>>}

DeemedYes == {<<121, 101, 115>>, <<121>>, <<116, 114, 117, 101>>}

\* Mutant: a deemed-positive flag decides the side before the amount's sign.
EntrySideDeemedFirst(entry) ==
  LET amount_raw == _to_float(entry.AMOUNT)
      deemed_text == DeemedText(entry)
  IN  IF deemed_text \in DeemedNo THEN "debit"
      ELSE IF deemed_text \in DeemedYes THEN "credit"
      ELSE IF amount_raw > 0 THEN "debit"
      ELSE IF amount_raw < 0 THEN "credit"
      ELSE "skip"

\* Mutant: the credit side is taken for every non-zero amount.
EntrySideAlwaysCredit(entry) == IF _to_float(entry.AMOUNT) = 0 THEN "skip" ELSE "credit"

\* The branch the sign resolution takes: "debit", "credit", or "skip" for the
\* continue of the final else.
EntrySide(entry) ==
  LET amount_raw == _to_float(entry.AMOUNT)
      deemed_text == DeemedText(entry)
  IN  IF amount_raw > 0 THEN "debit"
      ELSE IF amount_raw < 0 THEN "credit"
      ELSE IF deemed_text \in DeemedNo THEN "debit"
      ELSE IF deemed_text \in DeemedYes THEN "credit"
      ELSE "skip"

\* Mutant: zero-amount entries are kept.
EntryKeptWithZero(entry) == EntrySide(entry) # "skip"

\* Whether the loop body reaches entries.append for this entry element.
EntryKept(entry) ==
  LET amount_abs == Abs(_to_float(entry.AMOUNT))
  IN  EntrySide(entry) # "skip" /\ amount_abs # 0

EntryAmount(entry) == Abs(_to_float(entry.AMOUNT))

MakeLedgerEntry(entry) ==
  [ledger_name |-> EntryLedger(entry),
   amount |-> EntryAmount(entry),
   is_debit |-> EntrySide(entry) = "debit"]

\* for entry in voucher.findall(f".//{tag}"): the kept entries of one tag, in
\* document order.
RECURSIVE EntriesOfTag(_, _)
EntriesOfTag(entry_elements, tag) ==
  IF entry_elements = <<>> THEN <<>>
  ELSE (IF Head(entry_elements).tag = tag /\ EntryKept(Head(entry_elements))
        THEN <<MakeLedgerEntry(Head(entry_elements))>>
        ELSE <<>>)
       \o EntriesOfTag(Tail(entry_elements), tag)

\* for tag in entry_tags: ...
RECURSIVE EntriesOfTags(_, _)
EntriesOfTags(entry_elements, tags) ==
  IF tags = <<>> THEN <<>>
  ELSE EntriesOfTag(entry_elements, Head(tags)) \o EntriesOfTags(entry_elements, Tail(tags))

\* Mutant: a voucher is yielded also when no entry survives.
VoucherOutcomeKeepsEmpty(voucher) ==
  IF Len(voucher.DATE) # 8 THEN "skip"
  ELSE IF ~IsoDateValid(voucher.DATE) THEN "raise"
  ELSE "yield"

\* What one VOUCHER element does to the generator: "skip" (continue, or no
\* surviving entry), "raise" (ValueError of date.fromisoformat) or "yield".
VoucherOutcome(voucher) ==
  IF Len(voucher.DATE) # 8 THEN "skip"
  ELSE IF ~IsoDateValid(voucher.DATE) THEN "raise"
  ELSE IF EntriesOfTags(voucher.entries, entry_tags) = <<>> THEN "skip"
  ELSE "yield"

MakeVoucher(voucher) ==
  [date |-> IsoDate(voucher.DATE),
   ledger_entries |-> EntriesOfTags(voucher.entries, entry_tags)]

\* list(_parse_daybook(raw)) over the VOUCHER elements of the document.
\* The vouchers the generator yields, in document order.
RECURSIVE YieldedVouchers(_)
YieldedVouchers(voucher_elements) ==
  IF voucher_elements = <<>> THEN <<>>
  ELSE (IF VoucherOutcome(Head(voucher_elements)) = "yield"
        THEN <<MakeVoucher(Head(voucher_elements))>>
        ELSE <<>>)
       \o YieldedVouchers(Tail(voucher_elements))

_parse_daybook(voucher_elements) ==
  IF \E i \in 1..Len(voucher_elements) : VoucherOutcome(voucher_elements[i]) = "raise"
  THEN [status |-> "error", error |-> "ValueError", vouchers |-> <<>>]
  ELSE [status |-> "ok", error |-> "", vouchers |-> YieldedVouchers(voucher_elements)]

(***************************************************************************)
(* tally_client.fetch_daybook.  The response is "unreachable" (the POST    *)
(* fails), "empty" (nothing left after cleaning), "malformed" (ET.ParseError*)
(* from ET.fromstring) or "xml" (a document with its VOUCHER elements).    *)
(***************************************************************************)
NotFetched == [status |-> "none", error |-> "", vouchers |-> <<>>]

fetch_daybook(resp) ==
  IF resp.kind = "unreachable"
  THEN [status |-> "error", error |-> "ConnectionError", vouchers |-> <<>>]
  ELSE IF resp.kind = "empty" THEN [status |-> "ok", error |-> "", vouchers |-> <<>>]
  ELSE IF resp.kind = "malformed" THEN [status |-> "ok", error |-> "", vouchers |-> <<>>]
  ELSE _parse_daybook(resp.voucher_elements)

(***************************************************************************)
(* The client calls and their transport.  An answer of Tally to one        *)
(* request is a failed HTTP call ("refused", "connect_timeout",            *)
(* "response_timeout", "http_error": non-2xx) or a body: "empty", "blank"  *)
(* (whitespace only), "malformed" (not parseable XML), or a document       *)
(* ("no_rows", "rows") with the names of the items it holds.               *)
(***************************************************************************)
FailedKinds == {"refused", "connect_timeout", "response_timeout", "http_error"}

\* _post_xml (urlopen): HTTPError and URLError become ConnectionError; a
\* timeout while waiting for the response is socket.timeout (TimeoutError),
\* which is neither and passes through.
_post_xml(answer) ==
  IF answer.kind \in {"refused", "connect_timeout", "http_error"} THEN "ConnectionError"
  ELSE IF answer.kind = "response_timeout" THEN "TimeoutError"
  ELSE ""

\* requests.post(...) and raise_for_status() inside
\* try/except requests.RequestException: every failed call is ConnectionError.
requests_post(answer) == IF answer.kind \in FailedKinds THEN "ConnectionError" ELSE ""

Raised(operation, error, sent) ==
  [operation |-> operation, status |-> "error", error |-> error, rows |-> <<>>,
   requests_sent |-> sent]

Returned(operation, rows, sent) ==
  [operation |-> operation, status |-> "ok", error |-> "", rows |-> rows,
   requests_sent |-> sent]

\* sorted(rows, key=lambda r: r[name].lower()), on the names of the rows.
RECURSIVE InsertByLowerName(_, _)
InsertByLowerName(sorted, name) ==
  IF sorted = <<>> THEN <<name>>
  ELSE IF StrLowerLess(name, Head(sorted))
       THEN <<name>> \o sorted
       ELSE <<Head(sorted)>> \o InsertByLowerName(Tail(sorted), name)

RECURSIVE SortByLowerName(_)
SortByLowerName(names) ==
  IF names = <<>> THEN <<>>
  ELSE InsertByLowerName(SortByLowerName(SubSeq(names, 1, Len(names) - 1)), names[Len(names)])

\* sorted({...}): distinct names in str order.
RECURSIVE InsertDistinctName(_, _)
InsertDistinctName(sorted, name) ==
  IF sorted = <<>> THEN <<name>>
  ELSE IF name = Head(sorted) THEN sorted
  ELSE IF StrLess(name, Head(sorted))
       THEN <<name>> \o sorted
       ELSE <<Head(sorted)>> \o InsertDistinctName(Tail(sorted), name)

RECURSIVE SortedNameSet(_)
SortedNameSet(names) ==
  IF names = <<>> THEN <<>>
  ELSE InsertDistinctName(SortedNameSet(SubSeq(names, 1, Len(names) - 1)), names[Len(names)])

\* _parse_ledger_master / _parse_group_master on a cleaned body: RuntimeError
\* when ET.fromstring fails (the empty text included), else the rows.
ParseMaster(answer) ==
  IF answer.kind \in {"empty", "blank", "malformed"} THEN "RuntimeError" ELSE ""

fetch_companies(t) ==
  IF _post_xml(t.primary) # "" THEN Raised("fetch_companies", _post_xml(t.primary), 1)
  ELSE IF t.primary.kind = "empty" THEN Returned("fetch_companies", <<>>, 1)
  ELSE IF t.primary.kind \in {"blank", "malformed"} THEN Returned("fetch_companies", <<>>, 1)
  ELSE Returned("fetch_companies", SortedNameSet(t.primary.items), 1)

\* The Day Book document an answer stands for: one voucher per item.
RECURSIVE VoucherElementsOf(_)
VoucherElementsOf(items) ==
  IF items = <<>> THEN <<>>
  ELSE <<[DATE |-> <<50, 48, 50, 52, 48, 51, 51, 49>>,
          entries |-> <<[tag |-> "ALLLEDGERENTRIES.LIST", LEDGERNAME |-> Head(items),
                         STOCKITEMNAME |-> "", AMOUNT |-> <<53>>,
                         ISDEEMEDPOSITIVE |-> <<>>]>>]>>
       \o VoucherElementsOf(Tail(items))

DaybookResponseOf(answer) ==
  IF answer.kind = "empty" THEN [kind |-> "empty", voucher_elements |-> <<>>]
  ELSE IF answer.kind \in {"blank", "malformed"}
       THEN [kind |-> "malformed", voucher_elements |-> <<>>]
  ELSE [kind |-> "xml", voucher_elements |-> VoucherElementsOf(answer.items)]

\* fetch_daybook with its transport; parsed is what fetch_daybook makes of
\* the body of the answer when the request succeeds.
FetchDaybookCall(t, parsed) ==
  IF _post_xml(t.primary) # "" THEN Raised("fetch_daybook", _post_xml(t.primary), 1)
  ELSE IF parsed.status = "ok" THEN Returned("fetch_daybook", parsed.vouchers, 1)
  ELSE Raised("fetch_daybook", parsed.error, 1)

\* Mutant: no fallback request; the rows of the primary request are returned.
fetch_ledger_master_no_fallback(t) ==
  IF requests_post(t.primary) # "" THEN Raised("fetch_ledger_master", "ConnectionError", 1)
  ELSE IF ParseMaster(t.primary) # "" THEN Raised("fetch_ledger_master", "RuntimeError", 1)
  ELSE Returned("fetch_ledger_master", SortByLowerName(t.primary.items), 1)

fetch_ledger_master(t) ==
  IF requests_post(t.primary) # "" THEN Raised("fetch_ledger_master", "ConnectionError", 1)
  ELSE IF t.primary.kind \in {"empty", "blank"}
       THEN Raised("fetch_ledger_master", "RuntimeError", 1)
  ELSE IF ParseMaster(t.primary) # "" THEN Raised("fetch_ledger_master", "RuntimeError", 1)
  ELSE IF t.primary.items # <<>>
       THEN Returned("fetch_ledger_master", SortByLowerName(t.primary.items), 1)
  ELSE IF requests_post(t.fallback) # ""
       THEN Raised("fetch_ledger_master", "ConnectionError", 2)
  ELSE IF ParseMaster(t.fallback) # "" THEN Raised("fetch_ledger_master", "RuntimeError", 2)
  ELSE IF t.fallback.items = <<>> THEN Raised("fetch_ledger_master", "RuntimeError", 2)
  ELSE Returned("fetch_ledger_master", SortByLowerName(t.fallback.items), 2)

\* Mutant: a body that cannot be parsed counts as a document without rows.
fetch_group_master_parse_failure_is_empty(t) ==
  IF requests_post(t.primary) # "" THEN Raised("fetch_group_master", "ConnectionError", 1)
  ELSE IF ParseMaster(t.primary) # "" THEN Returned("fetch_group_master", <<>>, 1)
  ELSE IF t.primary.items # <<>>
       THEN Returned("fetch_group_master", SortByLowerName(t.primary.items), 1)
  ELSE IF requests_post(t.fallback) # ""
       THEN Raised("fetch_group_master", "ConnectionError", 2)
  ELSE IF ParseMaster(t.fallback) # "" THEN Returned("fetch_group_master", <<>>, 2)
  ELSE IF t.fallback.items = <<>> THEN Raised("fetch_group_master", "RuntimeError", 2)
  ELSE Returned("fetch_group_master", SortByLowerName(t.fallback.items), 2)

fetch_group_master(t) ==
  IF requests_post(t.primary) # "" THEN Raised("fetch_group_master", "ConnectionError", 1)
  ELSE IF ParseMaster(t.primary) # "" THEN Raised("fetch_group_master", "RuntimeError", 1)
  ELSE IF t.primary.items # <<>>
       THEN Returned("fetch_group_master", SortByLowerName(t.primary.items), 1)
  ELSE IF requests_post(t.fallback) # ""
       THEN Raised("fetch_group_master", "ConnectionError", 2)
  ELSE IF ParseMaster(t.fallback) # "" THEN Raised("fetch_group_master", "RuntimeError", 2)
  ELSE IF t.fallback.items = <<>> THEN Raised("fetch_group_master", "RuntimeError", 2)
  ELSE Returned("fetch_group_master", SortByLowerName(t.fallback.items), 2)

(***************************************************************************)
(* What the loaders can return.  tally_client._parse_daybook yields only   *)
(* vouchers with at least one entry and entries with amount > 0;           *)
(* fetch_ledger_master / fetch_group_master return a non-empty list sorted *)
(* by the lower-cased name.                                                *)
(***************************************************************************)
LedgerEntry == [ledger_name : LedgerNames, amount : Amounts, is_debit : BOOLEAN]

Voucher == [date : Dates, ledger_entries : NonEmptySeqsUpTo(LedgerEntry, MaxEntries)]

\* The Day Book is a chronological export.
DayBooks ==
  {vs \in SeqsUpTo(Voucher, MaxVouchers) :
     \A i \in 1..(Len(vs) - 1) : vs[i].date <= vs[i + 1].date}

LedgerRow ==
  [LedgerName : LedgerNames, LedgerParent : ParentNames, OpeningBalanceNormalized : Openings]

LedgerMasters ==
  {rows \in NonEmptySeqsUpTo(LedgerRow, MaxLedgers) :
     \A i \in 1..(Len(rows) - 1) : ~StrLowerLess(rows[i + 1].LedgerName, rows[i].LedgerName)}

CurrentAssets ==
  [GroupName |-> "Current Assets", ParentName |-> "Current Assets",
   BS_or_PnL |-> "Balance Sheet", Type |-> "Asset", AffectsGrossProfit |-> "No"]

SalesAccounts ==
  [GroupName |-> "Sales Accounts", ParentName |-> "Sales Accounts",
   BS_or_PnL |-> "P&L", Type |-> "Income", AffectsGrossProfit |-> "Yes"]

GroupMasters == {<<CurrentAssets, SalesAccounts>>, <<SalesAccounts>>}

\* Texts of the Day Book documents of the model.
DateTexts ==
  {<<50, 48, 50, 52, 48, 51, 51, 49>>,     \* "20240331"
   <<50, 48, 50, 52, 48, 51, 51>>,         \* "2024033"
   <<50, 48, 50, 52, 48, 50, 51, 49>>}     \* "20240231"

AmountTexts ==
  {<<53>>,                                 \* "5"
   <<45, 53, 46, 48, 48>>,                 \* "-5.00"
   <<48>>}                                 \* "0"

DeemedTexts ==
  {<<89, 101, 115>>,                       \* "Yes"
   <<>>}                                   \* ""

EntryElement ==
  [tag : {"ALLLEDGERENTRIES.LIST"}, LEDGERNAME : {"Cash"}, STOCKITEMNAME : {""},
   AMOUNT : AmountTexts, ISDEEMEDPOSITIVE : DeemedTexts]
  \cup
  [tag : {"ALLINVENTORYENTRIES.LIST"}, LEDGERNAME : {""}, STOCKITEMNAME : {"Widget"},
   AMOUNT : {<<53>>}, ISDEEMEDPOSITIVE : {<<>>}]

VoucherElement == [DATE : DateTexts, entries : SeqsUpTo(EntryElement, MaxEntryElements)]

Responses ==
  {[kind |-> k, voucher_elements |-> <<>>] : k \in {"unreachable", "empty", "malformed"}}
  \cup
  {[kind |-> "xml", voucher_elements |-> vs] :
     vs \in SeqsUpTo(VoucherElement, MaxVoucherElements)}

NoResponse == [kind |-> "empty", voucher_elements |-> <<>>]

(***************************************************************************)
(* The parts of the state a specification does not use stay as they are    *)
(* before any call.                                                        *)
(***************************************************************************)
NotNormalized == [done |-> FALSE, value |-> 0]

NotClassified == [done |-> FALSE]

NoGroupNode == [NAME |-> <<>>]

NoTally == [primary |-> "none", fallback |-> "none"]

NotCalled ==
  [operation |-> "none", status |-> "none", error |-> "", rows |-> <<>>, requests_sent |-> 0]

NormalizeIdle == opening_raw = <<>> /\ opening_norm = NotNormalized

ClassifyIdle == group_node = NoGroupNode /\ group_row = NotClassified

ClientIdle == tally = NoTally /\ call = NotCalled

NoStock == [opening_stock |-> 0, closing_stock |-> 0]

NoKpis == [done |-> FALSE]

OverviewIdle == overview_tb = <<>> /\ stock = NoStock /\ kpis = NoKpis

NotComputed == [done |-> FALSE, value |-> 0]

FiscalIdle == fy_anchor = 0 /\ fy_start = NotComputed /\ fy_again = NotComputed

NotCleaned == [done |-> FALSE, text |-> <<>>]

\* resp = None
NoneResp == [is_none |-> TRUE, text |-> <<>>]

CleanIdle == raw_resp = NoneResp /\ clean_resp = NotCleaned

NoStatement == [done |-> FALSE, lines |-> <<>>]

StatementIdle == statement_tb = <<>> /\ pnl = NoStatement

\* A date argument that is None, and one that is a date.
NoneDate == [is_none |-> TRUE, value |-> 0]

SomeDate(d) == [is_none |-> FALSE, value |-> d]

NoPeriod == [start |-> NoneDate, end |-> NoneDate]

NotLoaded == [caller |-> "none", call |-> NotCalled]

LoadIdle == period = NoPeriod /\ loaded = NotLoaded

ReportIdle == OverviewIdle /\ FiscalIdle /\ CleanIdle /\ StatementIdle /\ LoadIdle

(***************************************************************************)
(* The dashboard session: the company data is loaded, then the user builds *)
(* trial balances from it.                                                 *)
(***************************************************************************)
Init ==
  /\ ledger_rows \in LedgerMasters
  /\ group_rows \in GroupMasters
  /\ vouchers \in DayBooks
  /\ tb = NoTb
  /\ ytd = NoYtd
  /\ response = NoResponse
  /\ fetched = NotFetched
  /\ NormalizeIdle
  /\ ClassifyIdle
  /\ ClientIdle
  /\ ReportIdle

BuildDynamicTrialBalance ==
  \E from_date \in Dates, to_date \in Dates :
    /\ from_date <= to_date
    /\ tb' = _build_dynamic_trial_balance(ledger_rows, group_rows, vouchers, from_date, to_date)
    /\ UNCHANGED <<ledger_rows, group_rows, vouchers, ytd, response, fetched>>
    /\ UNCHANGED <<normalizeVars, classifyVars, clientVars>>
    /\ UNCHANGED reportVars

BuildYtdTrialBalance ==
  /\ ytd' = _build_ytd_trial_balance(ledger_rows, group_rows, _voucher_dataframe(vouchers))
  /\ UNCHANGED <<ledger_rows, group_rows, vouchers, tb, response, fetched>>
  /\ UNCHANGED <<normalizeVars, classifyVars, clientVars>>
  /\ UNCHANGED reportVars

Next == BuildDynamicTrialBalance \/ BuildYtdTrialBalance

Spec == Init /\ [][Next]_vars

(***************************************************************************)
(* Fetching the Day Book: Tally answers the request, fetch_daybook turns   *)
(* the answer into vouchers.                                               *)
(***************************************************************************)
InitDaybook ==
  /\ response \in Responses
  /\ fetched = NotFetched
  /\ ledger_rows = <<>>
  /\ group_rows = <<>>
  /\ vouchers = <<>>
  /\ tb = NoTb
  /\ ytd = NoYtd
  /\ NormalizeIdle
  /\ ClassifyIdle
  /\ ClientIdle
  /\ ReportIdle

FetchDaybook ==
  /\ fetched' = fetch_daybook(response)
  /\ UNCHANGED <<ledger_rows, group_rows, vouchers, tb, ytd, response>>
  /\ UNCHANGED <<normalizeVars, classifyVars, clientVars>>
  /\ UNCHANGED reportVars

NextDaybook == FetchDaybook

SpecDaybook == InitDaybook /\ [][NextDaybook]_vars

(***************************************************************************)
(* Normalizing an opening balance: _parse_ledger_master hands the          *)
(* OPENINGBALANCE text of a LEDGER element to _normalize_drcr.             *)
(***************************************************************************)
Pads == {<<>>, <<32>>}

Signs == {<<>>, <<45>>, <<43>>}                       \* "", "-", "+"

NumberBodies ==
  {<<53>>,                                            \* "5"
   <<49, 50, 46, 53>>,                                \* "12.5"
   <<46, 53>>,                                        \* ".5"
   <<53, 46>>,                                        \* "5."
   <<49, 44, 50>>,                                    \* "1,2"
   <<48>>,                                            \* "0"
   <<>>}

Gaps == {<<>>, <<32>>, <<9, 32>>}

Markers ==
  {<<>>,
   <<68, 114>>, <<100, 82>>,                          \* "Dr", "dR"
   <<67, 114>>, <<99, 114>>, <<67, 82>>,              \* "Cr", "cr", "CR"
   <<68>>, <<120>>}                                   \* "D", "x"

OpeningTexts ==
  {a \o g \o b \o h \o c \o d :
     a \in Pads, g \in Signs, b \in NumberBodies, h \in Gaps, c \in Markers, d \in Pads}

InitNormalize ==
  /\ opening_raw \in OpeningTexts
  /\ opening_norm = NotNormalized
  /\ ledger_rows = <<>>
  /\ group_rows = <<>>
  /\ vouchers = <<>>
  /\ tb = NoTb
  /\ ytd = NoYtd
  /\ response = NoResponse
  /\ fetched = NotFetched
  /\ ClassifyIdle
  /\ ClientIdle
  /\ ReportIdle

NormalizeOpening ==
  /\ ~opening_norm.done
  /\ opening_norm' = [done |-> TRUE, value |-> _normalize_drcr(opening_raw)]
  /\ UNCHANGED <<opening_raw, sessionVars, daybookVars, classifyVars, clientVars>>
  /\ UNCHANGED reportVars

NextNormalize == NormalizeOpening

SpecNormalize == InitNormalize /\ [][NextNormalize]_vars

(***************************************************************************)
(* Classifying a group: _parse_group_master reads the fields of a GROUP    *)
(* element and derives the three classification columns.                   *)
(***************************************************************************)
NatureTexts ==
  {<<>>,  \* ""
   <<65, 115, 115, 101, 116, 115>>,  \* "Assets"
   <<76, 105, 97, 98, 105, 108, 105, 116, 105, 101, 115>>,  \* "Liabilities"
   <<73, 110, 99, 111, 109, 101>>,  \* "Income"
   <<69, 120, 112, 101, 110, 115, 101, 115>>,  \* "Expenses"
   <<83, 97, 108, 101, 32, 111, 102, 32, 65, 115, 115, 101, 116, 115>>,  \* "Sale of Assets"
   <<80, 114, 105, 109, 97, 114, 121>>}  \* "Primary"

FlagTexts ==
  {<<>>,  \* ""
   <<32, 121, 101, 115, 32>>,  \* " yes "
   <<78, 111>>,  \* "No"
   <<84, 82, 85, 69>>,  \* "TRUE"
   <<77, 97, 121, 98, 101>>}  \* "Maybe"

GroupNameTexts ==
  {<<83, 97, 108, 101, 115, 32, 65, 99, 99, 111, 117, 110, 116, 115>>,  \* "Sales Accounts"
   <<67, 117, 114, 114, 101, 110, 116, 32, 76, 105, 97, 98, 105, 108, 105, 116, 105, 101, 115>>,  \* "Current Liabilities"
   <<70, 105, 120, 101, 100, 32, 65, 115, 115, 101, 116, 115>>,  \* "Fixed Assets"
   <<87, 104, 111, 108, 101, 115, 97, 108, 101>>,  \* "Wholesale"
   <<68, 105, 114, 101, 99, 116, 32, 69, 120, 112, 101, 110, 115, 101, 115>>,  \* "Direct Expenses"
   <<67, 97, 112, 105, 116, 97, 108, 32, 65, 99, 99, 111, 117, 110, 116>>,  \* "Capital Account"
   <<80, 114, 111, 118, 105, 115, 105, 111, 110, 32, 102, 111, 114, 32, 76, 105, 97, 98, 105, 108, 105, 116, 121>>}  \* "Provision for Liability"

GroupParentTexts ==
  {<<>>,  \* ""
   <<80, 114, 105, 109, 97, 114, 121>>,  \* "Primary"
   <<80, 117, 114, 99, 104, 97, 115, 101, 32, 65, 99, 99, 111, 117, 110, 116, 115>>}  \* "Purchase Accounts"

GroupNode ==
  [NAME : GroupNameTexts, PARENT : GroupParentTexts, NATUREOFGROUP : NatureTexts,
   ISREVENUE : FlagTexts, AFFECTSGROSSPROFIT : FlagTexts]

InitClassify ==
  /\ group_node \in GroupNode
  /\ group_row = NotClassified
  /\ ledger_rows = <<>>
  /\ group_rows = <<>>
  /\ vouchers = <<>>
  /\ tb = NoTb
  /\ ytd = NoYtd
  /\ response = NoResponse
  /\ fetched = NotFetched
  /\ NormalizeIdle
  /\ ClientIdle
  /\ ReportIdle

ClassifyGroup ==
  /\ ~group_row.done
  /\ group_row' = GroupRowOf(group_node)
  /\ UNCHANGED <<group_node, sessionVars, daybookVars, normalizeVars, clientVars>>
  /\ UNCHANGED reportVars

NextClassify == ClassifyGroup

SpecClassify == InitClassify /\ [][NextClassify]_vars

(***************************************************************************)
(* One client call: Tally answers the request, and the fallback request if *)
(* the call sends one.                                                     *)
(***************************************************************************)
Answers ==
  [kind : FailedKinds \cup {"empty", "blank", "malformed", "no_rows"}, items : {<<>>}]
  \cup
  [kind : {"rows"}, items : {<<"Cash">>, <<"Cash", "bank">>}]

InitClient ==
  /\ tally \in [primary : Answers, fallback : Answers]
  /\ call = NotCalled
  /\ response = DaybookResponseOf(tally.primary)
  /\ ledger_rows = <<>>
  /\ group_rows = <<>>
  /\ vouchers = <<>>
  /\ tb = NoTb
  /\ ytd = NoYtd
  /\ fetched = NotFetched
  /\ NormalizeIdle
  /\ ClassifyIdle
  /\ ReportIdle

CallFetchCompanies ==
  /\ call = NotCalled
  /\ call' = fetch_companies(tally)
  /\ UNCHANGED <<tally, sessionVars, daybookVars, normalizeVars, classifyVars>>
  /\ UNCHANGED reportVars

CallFetchDaybook ==
  /\ call = NotCalled
  /\ \E parsed \in {fetch_daybook(response)} : call' = FetchDaybookCall(tally, parsed)
  /\ UNCHANGED <<tally, sessionVars, daybookVars, normalizeVars, classifyVars>>
  /\ UNCHANGED reportVars

CallFetchLedgerMaster ==
  /\ call = NotCalled
  /\ call' = fetch_ledger_master(tally)
  /\ UNCHANGED <<tally, sessionVars, daybookVars, normalizeVars, classifyVars>>
  /\ UNCHANGED reportVars

CallFetchGroupMaster ==
  /\ call = NotCalled
  /\ call' = fetch_group_master(tally)
  /\ UNCHANGED <<tally, sessionVars, daybookVars, normalizeVars, classifyVars>>
  /\ UNCHANGED reportVars

NextClient ==
  \/ CallFetchCompanies
  \/ CallFetchDaybook
  \/ CallFetchLedgerMaster
  \/ CallFetchGroupMaster

SpecClient == InitClient /\ [][NextClient]_vars

(***************************************************************************)
(* dashboard: the overview cards of the YTD trial balance.  The text       *)
(* columns of a trial balance are code-point sequences here, because the   *)
(* filters compare them through str.lower() / str.casefold().              *)
(***************************************************************************)
\* The texts of the classification columns and of the group names.
Labels ==
  [Income |-> <<73, 110, 99, 111, 109, 101>>,
   Expense |-> <<69, 120, 112, 101, 110, 115, 101>>,
   Asset |-> <<65, 115, 115, 101, 116>>,
   Yes |-> <<89, 101, 115>>,
   No |-> <<78, 111>>,
   PurchaseAccounts |-> <<80, 117, 114, 99, 104, 97, 115, 101, 32, 65, 99, 99, 111, 117, 110, 116, 115>>,
   purchase_accounts |-> <<112, 117, 114, 99, 104, 97, 115, 101, 32, 97, 99, 99, 111, 117, 110, 116, 115>>,
   SalesAccounts |-> <<83, 97, 108, 101, 115, 32, 65, 99, 99, 111, 117, 110, 116, 115>>,
   IndirectExpenses |-> <<73, 110, 100, 105, 114, 101, 99, 116, 32, 69, 120, 112, 101, 110, 115, 101, 115>>,
   PnL |-> <<80, 38, 76>>,
   BalanceSheet |-> <<66, 97, 108, 97, 110, 99, 101, 32, 83, 104, 101, 101, 116>>,
   Empty |-> <<>>]

\* Mutant: the excluded groups are not left out of the sum.
_sum_ytd_nett_nothing_excluded(tb_df, affects_gp, ledger_type, exclude_groups) ==
  SumSeq([i \in 1..Len(tb_df) |->
            IF /\ LowerCodes(tb_df[i].AffectsGrossProfit) = LowerCodes(affects_gp)
               /\ LowerCodes(tb_df[i].Type) = LowerCodes(ledger_type)
            THEN tb_df[i].NettYTD ELSE 0])

\* Sum Nett YTD for rows matching the filters; exclude_groups is a set of
\* group names (the empty set for None).
RECURSIVE _sum_ytd_nett(_, _, _, _)
_sum_ytd_nett(tb_df, affects_gp, ledger_type, exclude_groups) ==
  IF tb_df = <<>> THEN 0
  ELSE (IF /\ LowerCodes(Head(tb_df).AffectsGrossProfit) = LowerCodes(affects_gp)
           /\ LowerCodes(Head(tb_df).Type) = LowerCodes(ledger_type)
           /\ LowerCodes(Head(tb_df).GroupName) \notin {LowerCodes(g) : g \in exclude_groups}
        THEN Head(tb_df).NettYTD
        ELSE 0)
       + _sum_ytd_nett(Tail(tb_df), affects_gp, ledger_type, exclude_groups)

\* tb_df.loc[purchase_mask, "Nett YTD"].sum() with
\* purchase_mask = GroupName.casefold() == "purchase accounts".casefold()
RECURSIVE PurchasesYtd(_)
PurchasesYtd(tb_df) ==
  IF tb_df = <<>> THEN 0
  ELSE (IF LowerCodes(Head(tb_df).GroupName) = LowerCodes(Labels.purchase_accounts)
        THEN Head(tb_df).NettYTD
        ELSE 0)
       + PurchasesYtd(Tail(tb_df))

_render_ytd_overview_cards(tb_df, opening_stock, closing_stock) ==
  LET revenue == 0 - _sum_ytd_nett(tb_df, Keywords.yes, Keywords.income, {})
      direct_expense ==
        _sum_ytd_nett(tb_df, Keywords.yes, Keywords.expense, {Labels.PurchaseAccounts})
      purchases_ytd == PurchasesYtd(tb_df)
      cogs == opening_stock + purchases_ytd - closing_stock
      gross_profit == revenue - direct_expense - cogs
      indirect_expense == _sum_ytd_nett(tb_df, Keywords.no, Keywords.expense, {})
      indirect_income == 0 - _sum_ytd_nett(tb_df, Keywords.no, Keywords.income, {})
      net_profit == gross_profit + indirect_income - indirect_expense
  IN  [done |-> TRUE,
       revenue |-> revenue,
       direct_expense |-> direct_expense,
       purchases_ytd |-> purchases_ytd,
       cogs |-> cogs,
       gross_profit |-> gross_profit,
       indirect_expense |-> indirect_expense,
       indirect_income |-> indirect_income,
       net_profit |-> net_profit]

(***************************************************************************)
(* Rendering the overview: a YTD trial balance has been built and the user *)
(* has entered the stock values.  The classification columns of a row are  *)
(* those of its group in the Group Master, or empty texts when the group   *)
(* is not in it, so rows of one group carry the same classification.       *)
(***************************************************************************)
MaxOverviewRows == 2

OverviewGroups == {Labels.PurchaseAccounts, Labels.purchase_accounts, Labels.SalesAccounts}

OverviewMovements == {-5, 7}

OverviewRow ==
  [GroupName : OverviewGroups,
   Type : {Labels.Income, Labels.Expense, Labels.Asset},
   AffectsGrossProfit : {Labels.Yes, Labels.No},
   NettYTD : OverviewMovements]
  \cup
  [GroupName : OverviewGroups, Type : {<<>>}, AffectsGrossProfit : {<<>>},
   NettYTD : OverviewMovements]

OverviewTables ==
  {rows \in NonEmptySeqsUpTo(OverviewRow, MaxOverviewRows) :
     \A i, j \in 1..Len(rows) :
       rows[i].GroupName = rows[j].GroupName
         => /\ rows[i].Type = rows[j].Type
            /\ rows[i].AffectsGrossProfit = rows[j].AffectsGrossProfit}

Stocks == [opening_stock : {0, 3}, closing_stock : {0, 2}]

InitOverview ==
  /\ overview_tb \in OverviewTables
  /\ stock \in Stocks
  /\ kpis = NoKpis
  /\ FiscalIdle
  /\ CleanIdle
  /\ StatementIdle
  /\ LoadIdle
  /\ ledger_rows = <<>>
  /\ group_rows = <<>>
  /\ vouchers = <<>>
  /\ tb = NoTb
  /\ ytd = NoYtd
  /\ response = NoResponse
  /\ fetched = NotFetched
  /\ NormalizeIdle
  /\ ClassifyIdle
  /\ ClientIdle

RenderYtdOverviewCards ==
  /\ kpis' = _render_ytd_overview_cards(overview_tb, stock.opening_stock, stock.closing_stock)
  /\ UNCHANGED <<overview_tb, stock>>
  /\ UNCHANGED <<sessionVars, daybookVars, normalizeVars, classifyVars, clientVars>>
  /\ UNCHANGED <<fiscalVars, cleanVars, statementVars, loadVars>>

NextOverview == RenderYtdOverviewCards

SpecOverview == InitOverview /\ [][NextOverview]_vars

(***************************************************************************)
(* The fiscal year of a date: _fiscal_year_start is applied to a calendar  *)
(* day (the dashboard gives it today's date and the window's from date),   *)
(* and once more to the date it returned.                                  *)
(***************************************************************************)
AnchorYears == {2023, 2024}

\* The calendar days of these years.
AnchorDates ==
  {x \in {MkDate(y, m, d) : y \in AnchorYears, m \in 1..12, d \in 1..31} :
     (x % 100) <= DaysInMonth(DateYear(x), DateMonth(x))}

InitFiscal ==
  /\ fy_anchor \in AnchorDates
  /\ fy_start = NotComputed
  /\ fy_again = NotComputed
  /\ ledger_rows = <<>>
  /\ group_rows = <<>>
  /\ vouchers = <<>>
  /\ tb = NoTb
  /\ ytd = NoYtd
  /\ response = NoResponse
  /\ fetched = NotFetched
  /\ NormalizeIdle
  /\ ClassifyIdle
  /\ ClientIdle
  /\ OverviewIdle
  /\ CleanIdle
  /\ StatementIdle
  /\ LoadIdle

FiscalYearStart ==
  /\ ~fy_start.done
  /\ fy_start' = [done |-> TRUE, value |-> _fiscal_year_start(fy_anchor)]
  /\ UNCHANGED <<fy_anchor, fy_again>>
  /\ UNCHANGED <<sessionVars, daybookVars, normalizeVars, classifyVars, clientVars>>
  /\ UNCHANGED <<overviewVars, cleanVars, statementVars, loadVars>>

FiscalYearStartAgain ==
  /\ fy_start.done
  /\ ~fy_again.done
  /\ fy_again' = [done |-> TRUE, value |-> _fiscal_year_start(fy_start.value)]
  /\ UNCHANGED <<fy_anchor, fy_start>>
  /\ UNCHANGED <<sessionVars, daybookVars, normalizeVars, classifyVars, clientVars>>
  /\ UNCHANGED <<overviewVars, cleanVars, statementVars, loadVars>>

NextFiscal == FiscalYearStart \/ FiscalYearStartAgain

SpecFiscal == InitFiscal /\ [][NextFiscal]_vars

(***************************************************************************)
(* tally_client._clean_tally_xml.  A response is None or a text; a text is *)
(* a sequence of code points.                                              *)
(***************************************************************************)
\* Mutant: DEL (0x7F) is not a control character.
IsControlBelowSpace(c) == (c >= 0 /\ c <= 8) \/ c = 11 \/ c = 12 \/ (c >= 14 /\ c <= 31)

\* The character class [\x00-\x08\x0B\x0C\x0E-\x1F\x7F]
IsControl(c) ==
  (c >= 0 /\ c <= 8) \/ c = 11 \/ c = 12 \/ (c >= 14 /\ c <= 31) \/ c = 127

\* resp.replace("&", "&amp;")
RECURSIVE ReplaceAmpersands(_)
ReplaceAmpersands(t) ==
  IF t = <<>> THEN <<>>
  ELSE (IF Head(t) = 38 THEN <<38, 97, 109, 112, 59>> ELSE <<Head(t)>>)
       \o ReplaceAmpersands(Tail(t))

\* re.sub(r"[...]", "", resp)
RemoveControls(t) == SelectSeq(t, LAMBDA c : ~IsControl(c))

_clean_tally_xml(r) ==
  IF r.is_none \/ r.text = <<>> THEN <<>>
  ELSE RemoveControls(ReplaceAmpersands(r.text))

(***************************************************************************)
(* Cleaning a response: _post_xml hands a body (or nothing) to             *)
(* _clean_tally_xml.                                                       *)
(***************************************************************************)
MaxRespLen == 4

\* Control characters the pattern removes, whitespace and a blank it keeps,
\* and the characters of the entity "&lt;".
RespChars == {0, 8, 11, 12, 14, 31, 127} \cup {9, 10, 13, 32} \cup {38, 108, 116, 59}

Resps ==
  {NoneResp} \cup {[is_none |-> FALSE, text |-> t] : t \in SeqsUpTo(RespChars, MaxRespLen)}

InitClean ==
  /\ raw_resp \in Resps
  /\ clean_resp = NotCleaned
  /\ ledger_rows = <<>>
  /\ group_rows = <<>>
  /\ vouchers = <<>>
  /\ tb = NoTb
  /\ ytd = NoYtd
  /\ response = NoResponse
  /\ fetched = NotFetched
  /\ NormalizeIdle
  /\ ClassifyIdle
  /\ ClientIdle
  /\ OverviewIdle
  /\ FiscalIdle
  /\ StatementIdle
  /\ LoadIdle

CleanTallyXml ==
  /\ clean_resp' = [done |-> TRUE, text |-> _clean_tally_xml(raw_resp)]
  /\ UNCHANGED raw_resp
  /\ UNCHANGED <<sessionVars, daybookVars, normalizeVars, classifyVars, clientVars>>
  /\ UNCHANGED <<overviewVars, fiscalVars, statementVars, loadVars>>

NextClean == CleanTallyXml

SpecClean == InitClean /\ [][NextClean]_vars

(***************************************************************************)
(* Loading the Day Book: dashboard._load_daybook and                       *)
(* DataManager.sync_data call fetch_daybook with start and end dates, or   *)
(* with None for both; fetch_daybook formats the dates before it posts.    *)
(***************************************************************************)
\* start.strftime("%Y%m%d"): None has no strftime.
strftime(d) == IF d.is_none THEN "AttributeError" ELSE ""

\* fetch_daybook(company_name, start, end, host, port); parsed is what it
\* makes of the body of the answer when the request succeeds.
fetch_daybook_between(start, end, t, parsed) ==
  IF strftime(start) # "" THEN Raised("fetch_daybook", strftime(start), 0)
  ELSE IF strftime(end) # "" THEN Raised("fetch_daybook", strftime(end), 0)
  ELSE FetchDaybookCall(t, parsed)

_load_daybook(start, end, t, parsed) == fetch_daybook_between(start, end, t, parsed)

NoAnswer == [kind |-> "empty", items |-> <<>>]

\* The dates of the dynamic trial balance inputs.
WindowDates == Dates \cup {20240315, 20240401}

InitLoad ==
  /\ tally \in [primary : Answers, fallback : {NoAnswer}]
  /\ call = NotCalled
  /\ response = DaybookResponseOf(tally.primary)
  /\ period = NoPeriod
  /\ loaded = NotLoaded
  /\ ledger_rows = <<>>
  /\ group_rows = <<>>
  /\ vouchers = <<>>
  /\ tb = NoTb
  /\ ytd = NoYtd
  /\ fetched = NotFetched
  /\ NormalizeIdle
  /\ ClassifyIdle
  /\ OverviewIdle
  /\ FiscalIdle
  /\ CleanIdle
  /\ StatementIdle

\* The "Load Full Day Book" button of the dashboard.
LoadFullDayBook(parsed) ==
  /\ loaded = NotLoaded
  /\ period' = [start |-> NoneDate, end |-> NoneDate]
  /\ loaded' = [caller |-> "main",
                call |-> _load_daybook(NoneDate, NoneDate, tally, parsed)]
  /\ UNCHANGED <<tally, call, sessionVars, daybookVars, normalizeVars, classifyVars>>
  /\ UNCHANGED <<overviewVars, fiscalVars, cleanVars, statementVars>>

\* DataManager.sync_data, step 3.
SyncData(parsed) ==
  /\ loaded = NotLoaded
  /\ period' = [start |-> NoneDate, end |-> NoneDate]
  /\ loaded' = [caller |-> "sync_data",
                call |-> fetch_daybook_between(NoneDate, NoneDate, tally, parsed)]
  /\ UNCHANGED <<tally, call, sessionVars, daybookVars, normalizeVars, classifyVars>>
  /\ UNCHANGED <<overviewVars, fiscalVars, cleanVars, statementVars>>

\* The load of _build_dynamic_trial_balance, for the window's fiscal span.
LoadWindowDayBook(parsed) ==
  /\ loaded = NotLoaded
  /\ \E from_date \in WindowDates, to_date \in WindowDates :
       /\ from_date <= to_date
       /\ period' = [start |-> SomeDate(_fiscal_year_start(from_date)),
                     end |-> SomeDate(to_date)]
       /\ loaded' = [caller |-> "_build_dynamic_trial_balance",
                     call |-> _load_daybook(SomeDate(_fiscal_year_start(from_date)),
                                            SomeDate(to_date), tally, parsed)]
  /\ UNCHANGED <<tally, call, sessionVars, daybookVars, normalizeVars, classifyVars>>
  /\ UNCHANGED <<overviewVars, fiscalVars, cleanVars, statementVars>>

\* parsed is what fetch_daybook makes of the body Tally would answer with.
NextLoad ==
  \E parsed \in {fetch_daybook(response)} :
    \/ LoadFullDayBook(parsed)
    \/ SyncData(parsed)
    \/ LoadWindowDayBook(parsed)

SpecLoad == InitLoad /\ [][NextLoad]_vars

(***************************************************************************)
(* dashboard._statement_from_tb(tb_df, "P&L"): the Profit & Loss statement *)
(* of a dynamic trial balance, a list of lines {Line, Amount}.             *)
(***************************************************************************)
\* The line labels, the prefix of a group line and the tokens of pnl_mask.
StatementLabels ==
  [Revenue |-> <<82, 101, 118, 101, 110, 117, 101>>,
   COGS |-> <<67, 79, 71, 83>>,
   GrossProfit |-> <<71, 114, 111, 115, 115, 32, 80, 114, 111, 102, 105, 116>>,
   OperatingExpenses |-> <<79, 112, 101, 114, 97, 116, 105, 110, 103, 32, 69, 120, 112, 101, 110, 115, 101, 115>>,
   EBIT |-> <<69, 66, 73, 84>>,
   OtherIncome |-> <<79, 116, 104, 101, 114, 32, 73, 110, 99, 111, 109, 101>>,
   NetProfit |-> <<78, 101, 116, 32, 80, 114, 111, 102, 105, 116>>,
   bullet |-> <<183, 32>>,
   pnl |-> <<112, 38, 108>>,
   profit |-> <<112, 114, 111, 102, 105, 116>>,
   IndirectIncomes |-> <<73, 110, 100, 105, 114, 101, 99, 116, 32, 73, 110, 99, 111, 109, 101, 115>>]

\* -raw if the Type is income, else raw
pnl_amount(row) ==
  IF LowerCodes(row.Type) = Keywords.income THEN 0 - row.T2DynamicCLB ELSE row.T2DynamicCLB

\* mask = pnl_mask | type_mask: the rows of pnl_df
InPnlDf(row) ==
  \/ Contains(LowerCodes(row.BS_or_PnL), StatementLabels.pnl)
  \/ Contains(LowerCodes(row.BS_or_PnL), StatementLabels.profit)
  \/ LowerCodes(row.Type) \in {Keywords.income, Keywords.expense}

\* revenue_mask, cogs_mask, opex_mask and other_income_mask on a row.
InSection(row, section) ==
  /\ InPnlDf(row)
  /\ IF section = "revenue"
     THEN LowerCodes(row.Type) = Keywords.income
     ELSE IF section = "cogs"
     THEN /\ LowerCodes(row.Type) = Keywords.expense
          /\ LowerCodes(row.AffectsGrossProfit) = Keywords.yes
     ELSE IF section = "opex"
     THEN /\ LowerCodes(row.Type) = Keywords.expense
          /\ LowerCodes(row.AffectsGrossProfit) # Keywords.yes
     ELSE /\ ~(/\ LowerCodes(row.Type) = Keywords.expense
               /\ LowerCodes(row.AffectsGrossProfit) = Keywords.yes)
          /\ LowerCodes(row.Type) = Keywords.income
          /\ LowerCodes(row.AffectsGrossProfit) # Keywords.yes

\* pnl_df.loc[section_mask, "DisplayAmount"].sum()
RECURSIVE SectionTotal(_, _)
SectionTotal(tb_df, section) ==
  IF tb_df = <<>> THEN 0
  ELSE (IF InSection(Head(tb_df), section) THEN pnl_amount(Head(tb_df)) ELSE 0)
       + SectionTotal(Tail(tb_df), section)

\* The sum of one group within a section.
RECURSIVE GroupTotal(_, _, _)
GroupTotal(tb_df, section, group) ==
  IF tb_df = <<>> THEN 0
  ELSE (IF InSection(Head(tb_df), section) /\ Head(tb_df).GroupName = group
        THEN pnl_amount(Head(tb_df))
        ELSE 0)
       + GroupTotal(Tail(tb_df), section, group)

\* The group names of the model in str order, the order the groupby and
\* sort_values("GroupName") of summarize give.
StatementGroupOrder == <<StatementLabels.IndirectIncomes, Labels.SalesAccounts>>

\* summarize(section_mask): one line per group of the section.
RECURSIVE summarize(_, _, _)
summarize(groups, tb_df, section) ==
  IF groups = <<>> THEN <<>>
  ELSE (IF \E i \in 1..Len(tb_df) :
             InSection(tb_df[i], section) /\ tb_df[i].GroupName = Head(groups)
        THEN <<[Line |-> StatementLabels.bullet \o Head(groups),
                Amount |-> GroupTotal(tb_df, section, Head(groups))]>>
        ELSE <<>>)
       \o summarize(Tail(groups), tb_df, section)

_statement_from_tb(tb_df) ==
  IF tb_df = <<>> THEN [done |-> TRUE, lines |-> <<>>]
  ELSE
    LET revenue_total == SectionTotal(tb_df, "revenue")
        cogs_total == SectionTotal(tb_df, "cogs")
        opex_total == SectionTotal(tb_df, "opex")
        other_income_total == SectionTotal(tb_df, "other_income")
        gross_profit == revenue_total - cogs_total
        ebit == gross_profit - opex_total
        net_profit == ebit + other_income_total
    IN  [done |-> TRUE,
         lines |->
           <<[Line |-> StatementLabels.Revenue, Amount |-> revenue_total]>>
           \o summarize(StatementGroupOrder, tb_df, "revenue")
           \o <<[Line |-> StatementLabels.COGS, Amount |-> cogs_total]>>
           \o summarize(StatementGroupOrder, tb_df, "cogs")
           \o <<[Line |-> StatementLabels.GrossProfit, Amount |-> gross_profit]>>
           \o <<[Line |-> StatementLabels.OperatingExpenses, Amount |-> opex_total]>>
           \o summarize(StatementGroupOrder, tb_df, "opex")
           \o <<[Line |-> StatementLabels.EBIT, Amount |-> ebit]>>
           \o (IF other_income_total # 0
               THEN <<[Line |-> StatementLabels.OtherIncome, Amount |-> other_income_total]>>
                    \o summarize(StatementGroupOrder, tb_df, "other_income")
               ELSE <<>>)
           \o <<[Line |-> StatementLabels.NetProfit, Amount |-> net_profit]>>]

(***************************************************************************)
(* Making the Profit & Loss statement of a built dynamic trial balance.    *)
(* The classification columns of a row are those of its group in the Group *)
(* Master, or empty texts when the group is not in it.                     *)
(***************************************************************************)
MaxStatementRows == 2

StatementMovements == {-5, 7}

StatementRow ==
  [GroupName : {StatementLabels.IndirectIncomes, Labels.SalesAccounts},
   BS_or_PnL : {Labels.PnL, Labels.BalanceSheet},
   Type : {Labels.Income, Labels.Expense, Labels.Asset},
   AffectsGrossProfit : {Labels.Yes, Labels.No},
   T2DynamicCLB : StatementMovements]
  \cup
  [GroupName : {StatementLabels.IndirectIncomes, Labels.SalesAccounts},
   BS_or_PnL : {<<>>}, Type : {<<>>}, AffectsGrossProfit : {<<>>},
   T2DynamicCLB : StatementMovements]

StatementTables ==
  {rows \in NonEmptySeqsUpTo(StatementRow, MaxStatementRows) :
     \A i, j \in 1..Len(rows) :
       rows[i].GroupName = rows[j].GroupName
         => /\ rows[i].BS_or_PnL = rows[j].BS_or_PnL
            /\ rows[i].Type = rows[j].Type
            /\ rows[i].AffectsGrossProfit = rows[j].AffectsGrossProfit}

InitStatement ==
  /\ statement_tb \in StatementTables
  /\ pnl = NoStatement
  /\ ledger_rows = <<>>
  /\ group_rows = <<>>
  /\ vouchers = <<>>
  /\ tb = NoTb
  /\ ytd = NoYtd
  /\ response = NoResponse
  /\ fetched = NotFetched
  /\ NormalizeIdle
  /\ ClassifyIdle
  /\ ClientIdle
  /\ OverviewIdle
  /\ FiscalIdle
  /\ CleanIdle
  /\ LoadIdle

StatementFromTb ==
  /\ pnl' = _statement_from_tb(statement_tb)
  /\ UNCHANGED statement_tb
  /\ UNCHANGED <<sessionVars, daybookVars, normalizeVars, classifyVars, clientVars>>
  /\ UNCHANGED <<overviewVars, fiscalVars, cleanVars, loadVars>>

NextStatement == StatementFromTb

SpecStatement == InitStatement /\ [][NextStatement]_vars

(***************************************************************************)
(* Reference definitions for the trial-balance properties: sums over the   *)
(* voucher lines of the loaded Day Book, taken as a set.                   *)
(***************************************************************************)
RECURSIVE SetSum(_)
SetSum(S) ==
  IF S = {} THEN 0
  ELSE LET x == CHOOSE y \in S : TRUE IN x[2] + SetSum(S \ {x})

\* The voucher lines <<voucher index, entry index>> of the Day Book.
Lines == {l \in (1..Len(vouchers)) \X (1..MaxEntries) :
            l[2] <= Len(vouchers[l[1]].ledger_entries)}

LineDate(l) == vouchers[l[1]].date

LineEntry(l) == vouchers[l[1]].ledger_entries[l[2]]

\* Debit positive, credit negative.
DebitPositive(e) == IF e.is_debit THEN e.amount ELSE 0 - e.amount

\* The Nett column of the line, as _voucher_dataframe computes it.
LineNett(l) == VoucherRow(vouchers[l[1]], LineEntry(l)).Nett

LinesOf(ledger, lo, hi) ==
  {l \in Lines : LineEntry(l).ledger_name = ledger /\ LineDate(l) >= lo /\ LineDate(l) <= hi}

\* Pre-window [fiscalYearStart(from), from): its lines are dated at or after
\* the fiscal start and before from.
PreWindowLines(ledger, from_date) ==
  {l \in Lines : /\ LineEntry(l).ledger_name = ledger
                 /\ LineDate(l) >= _fiscal_year_start(from_date)
                 /\ LineDate(l) < from_date}

InWindowLines(ledger, from_date, to_date) == LinesOf(ledger, from_date, to_date)

NettOf(ls) == SetSum({<<l, LineNett(l)>> : l \in ls})

DebitPositiveOf(ls) == SetSum({<<l, DebitPositive(LineEntry(l))>> : l \in ls})

TbOk == tb.status = "ok"

YtdOk == ytd.status = "ok"

TbRows == {tb.tb_df[i] : i \in 1..Len(tb.tb_df)}

YtdRows == {ytd.ytd_df[i] : i \in 1..Len(ytd.ytd_df)}

MasterNames == {ledger_rows[i].LedgerName : i \in 1..Len(ledger_rows)}

GroupNames == {group_rows[i].GroupName : i \in 1..Len(group_rows)}

InFiscalSpan(d, from_date, to_date) == d >= _fiscal_year_start(from_date) /\ d <= to_date

VoucherBalanced(v) ==
  SumSeq([j \in 1..Len(v.ledger_entries) |-> DebitPositive(v.ledger_entries[j])]) = 0

\* C1: in the Dynamic Trial Balance a ledger's in-window movement is debit
\* positive: DynamicClosing is DynamicOpening plus the in-window debits minus
\* the in-window credits of the ledger.
C1_DebitPositiveMovement ==
  TbOk =>
    \A r \in TbRows :
      r.DynamicClosing =
        r.DynamicOpening
          + DebitPositiveOf(InWindowLines(r.LedgerName, tb.from_date, tb.to_date))

\* C2: every row has DynamicOpening = OpeningBalance + the ledger's Nett over
\* [fiscalYearStart(from), from) and DynamicClosing = DynamicOpening + the
\* ledger's Nett over [from, to].
C2_WindowSums ==
  TbOk =>
    \A r \in TbRows :
      /\ r.DynamicOpening =
           r.OpeningBalance + NettOf(PreWindowLines(r.LedgerName, tb.from_date))
      /\ r.DynamicClosing =
           r.DynamicOpening + NettOf(InWindowLines(r.LedgerName, tb.from_date, tb.to_date))

\* A built table with a ledger that moved both before and inside the window,
\* on the first day of the fiscal year and on the window's last day.
C2_Witness ==
  /\ TbOk
  /\ \E r \in TbRows :
       /\ r.T2DynamicOB # 0
       /\ r.T2DynamicCLB # 0
       /\ r.OpeningBalance # 0
       /\ \E l \in PreWindowLines(r.LedgerName, tb.from_date) :
            LineDate(l) = _fiscal_year_start(tb.from_date)
       /\ \E l \in InWindowLines(r.LedgerName, tb.from_date, tb.to_date) :
            LineDate(l) = tb.to_date

\* C3: with every voucher dated within [fiscalYearStart(from), to], the
\* Dynamic and the YTD Trial Balance built from the same masters and vouchers
\* list the same ledgers, and DynamicClosing = YTDCLB for each ledger.
C3_DynamicClosingIsYtdClosing ==
  (/\ TbOk
   /\ YtdOk
   /\ \A i \in 1..Len(vouchers) : InFiscalSpan(vouchers[i].date, tb.from_date, tb.to_date))
  =>
  /\ {r.LedgerName : r \in TbRows} = {y.LedgerName : y \in YtdRows}
  /\ Len(tb.tb_df) = Len(ytd.ytd_df)
  /\ \A r \in TbRows, y \in YtdRows :
       r.LedgerName = y.LedgerName => r.DynamicClosing = y.YTDCLB

\* Both tables built, every voucher in the fiscal span, one of them before the
\* window (on the fiscal year's first day) and one inside it.
C3_Witness ==
  /\ TbOk
  /\ YtdOk
  /\ \A i \in 1..Len(vouchers) : InFiscalSpan(vouchers[i].date, tb.from_date, tb.to_date)
  /\ \E r \in TbRows : r.T2DynamicOB # 0 /\ r.T2DynamicCLB # 0 /\ r.OpeningBalance # 0

\* C4: when the opening balances sum to zero and every voucher in
\* [fiscalYearStart(from), to] is balanced, the DynamicClosing column sums to
\* zero, also when a voucher posts to a ledger absent from the Ledger Master.
C4_TrialBalanceBalances ==
  (/\ TbOk
   /\ SumSeq([i \in 1..Len(tb.tb_df) |-> tb.tb_df[i].OpeningBalance]) = 0
   /\ \A i \in 1..Len(vouchers) :
        InFiscalSpan(vouchers[i].date, tb.from_date, tb.to_date)
          => VoucherBalanced(vouchers[i]))
  => SumSeq([i \in 1..Len(tb.tb_df) |-> tb.tb_df[i].DynamicClosing]) = 0

\* C5: when the fetched Day Book holds no voucher dated within
\* [fiscalYearStart(from), to], the dynamic build raises and returns no table.
C5_NoVoucherInSpanRaises ==
  (/\ tb.status # "none"
   /\ \A i \in 1..Len(vouchers) : ~InFiscalSpan(vouchers[i].date, tb.from_date, tb.to_date))
  => tb.status = "error"

\* C6: the Dynamic Trial Balance has exactly one row for every ledger name of
\* the Ledger Master and no other row; a ledger without movement in either
\* window has both movements 0 and DynamicOpening = DynamicClosing =
\* OpeningBalance, an opening balance the Ledger Master gives for it.
C6_OneRowPerMasterLedger ==
  TbOk =>
    /\ {r.LedgerName : r \in TbRows} = MasterNames
    /\ Len(tb.tb_df) = Cardinality(MasterNames)
    /\ \A r \in TbRows :
         /\ \E i \in 1..Len(ledger_rows) :
              /\ ledger_rows[i].LedgerName = r.LedgerName
              /\ ledger_rows[i].OpeningBalanceNormalized = r.OpeningBalance
         /\ (/\ PreWindowLines(r.LedgerName, tb.from_date) = {}
             /\ InWindowLines(r.LedgerName, tb.from_date, tb.to_date) = {})
            => /\ r.T2DynamicOB = 0
               /\ r.T2DynamicCLB = 0
               /\ r.DynamicOpening = r.OpeningBalance
               /\ r.DynamicClosing = r.OpeningBalance

\* A table built from a Ledger Master that repeats a name, with a ledger that
\* never moved (non-zero opening) beside one that did.
C6_Witness ==
  /\ TbOk
  /\ Len(ledger_rows) > Cardinality(MasterNames)
  /\ \E r \in TbRows :
       /\ r.OpeningBalance # 0
       /\ \A l \in Lines : LineEntry(l).ledger_name # r.LedgerName
  /\ Lines # {}

\* C7: in both tables a ledger whose parent group is missing from the Group
\* Master is classified Balance Sheet / Asset / AffectsGrossProfit = No.
C7_MissingGroupGetsSentinel ==
  /\ TbOk =>
       \A r \in TbRows :
         r.GroupName \notin GroupNames
           => /\ r.BS_or_PnL = "Balance Sheet"
              /\ r.Type = "Asset"
              /\ r.AffectsGrossProfit = "No"
  /\ YtdOk =>
       \A y \in YtdRows :
         y.GroupName \notin GroupNames
           => /\ y.BS_or_PnL = "Balance Sheet"
              /\ y.Type = "Asset"
              /\ y.AffectsGrossProfit = "No"

(***************************************************************************)
(* Reference definitions for the Voucher Extractor properties.            *)
(***************************************************************************)
FetchedOk == response.kind = "xml" /\ fetched.status = "ok"

\* The parsed amount of an entry element.
ParsedAmount(e) == _to_float(e.AMOUNT)

\* A DATE text that is a calendar date written as eight digits.
WellFormedDate(t) == Len(t) = 8 /\ IsoDateValid(t)

\* The VOUCHER elements that are to be returned: a well-formed date and at
\* least one entry with a non-zero amount.
Survivors ==
  SelectSeq(response.voucher_elements,
            LAMBDA v : /\ WellFormedDate(v.DATE)
                       /\ \E j \in 1..Len(v.entries) : ParsedAmount(v.entries[j]) # 0)

\* The entry an entry element with a non-zero amount is to become.
ExpectedEntry(e) ==
  [ledger_name |-> EntryLedger(e),
   amount |-> Abs(ParsedAmount(e)),
   is_debit |-> ParsedAmount(e) > 0]

CountExpected(v, x) ==
  Cardinality({j \in 1..Len(v.entries) :
                 ParsedAmount(v.entries[j]) # 0 /\ ExpectedEntry(v.entries[j]) = x})

CountReturned(voucher, x) ==
  Cardinality({j \in 1..Len(voucher.ledger_entries) : voucher.ledger_entries[j] = x})

ReturnedEntries(voucher) ==
  {voucher.ledger_entries[j] : j \in 1..Len(voucher.ledger_entries)}

ExpectedEntries(v) ==
  {ExpectedEntry(v.entries[j]) : j \in {i \in 1..Len(v.entries) : ParsedAmount(v.entries[i]) # 0}}

RawSum(v) == SumSeq([j \in 1..Len(v.entries) |-> ParsedAmount(v.entries[j])])

ReturnedSum(voucher) ==
  SumSeq([j \in 1..Len(voucher.ledger_entries) |-> DebitPositive(voucher.ledger_entries[j])])

\* C8: the returned vouchers hold, for every entry element with a non-zero
\* parsed amount, one entry with is_debit = (amount > 0) and amount = |amount|,
\* and nothing else; every returned entry has amount > 0.
C8_SignFromAmount ==
  FetchedOk =>
    /\ Len(fetched.vouchers) = Len(Survivors)
    /\ \A k \in 1..Len(fetched.vouchers) :
         /\ \A x \in ReturnedEntries(fetched.vouchers[k]) \cup ExpectedEntries(Survivors[k]) :
              CountReturned(fetched.vouchers[k], x) = CountExpected(Survivors[k], x)
         /\ \A x \in ReturnedEntries(fetched.vouchers[k]) : x.amount > 0

\* A returned voucher made from a positive, a negative amount, beside a
\* voucher element whose only entry has amount zero and a deemed-positive flag.
C8_Witness ==
  /\ FetchedOk
  /\ \E k \in 1..Len(fetched.vouchers) :
       /\ \E x \in ReturnedEntries(fetched.vouchers[k]) : x.is_debit
       /\ \E x \in ReturnedEntries(fetched.vouchers[k]) : ~x.is_debit
  /\ \E i \in 1..Len(response.voucher_elements) :
       LET v == response.voucher_elements[i]
       IN  /\ WellFormedDate(v.DATE)
           /\ Len(v.entries) = 1
           /\ ParsedAmount(v.entries[1]) = 0
           /\ v.entries[1].ISDEEMEDPOSITIVE # <<>>

\* C9: a voucher whose DATE is malformed (wrong length, or eight characters
\* that are no calendar date) is dropped, the other vouchers of the payload
\* are returned, and the fetch does not fail.
C9_MalformedDateDropped ==
  (response.kind = "xml" /\ fetched.status # "none") =>
    /\ fetched.status = "ok"
    /\ Len(fetched.vouchers) = Len(Survivors)
    /\ \A k \in 1..Len(fetched.vouchers) :
         fetched.vouchers[k].date = IsoDate(Survivors[k].DATE)

\* C10: a voucher element whose parsed amounts sum to zero is returned as a
\* voucher whose entries, debit positive and credit negative, sum to zero.
C10_ZeroSumKept ==
  FetchedOk =>
    /\ Len(fetched.vouchers) = Len(Survivors)
    /\ \A k \in 1..Len(fetched.vouchers) :
         RawSum(Survivors[k]) = 0 => ReturnedSum(fetched.vouchers[k]) = 0

\* A returned voucher whose element had a positive and a negative amount that
\* cancel.
C10_Witness ==
  /\ FetchedOk
  /\ \E k \in 1..Len(fetched.vouchers) :
       /\ RawSum(Survivors[k]) = 0
       /\ Len(fetched.vouchers[k].ledger_entries) = 2
       /\ fetched.vouchers[k].ledger_entries[1].is_debit
            # fetched.vouchers[k].ledger_entries[2].is_debit

(***************************************************************************)
(* Reference definitions for the opening-balance properties: a numeral is  *)
(* an optional "-" and decimal digits with at most one point that a digit  *)
(* follows; the text is read after commas and outer whitespace are gone.   *)
(***************************************************************************)
IsDigits(t) == t # <<>> /\ \A i \in 1..Len(t) : IsDigit(t[i])

IsUnsignedNumeral(t) ==
  \/ IsDigits(t)
  \/ \E j \in 1..Len(t) :
       /\ t[j] = 46
       /\ j = 1 \/ IsDigits(SubSeq(t, 1, j - 1))
       /\ IsDigits(SubSeq(t, j + 1, Len(t)))

IsNumeral(t) ==
  IF t # <<>> /\ t[1] = 45 THEN IsUnsignedNumeral(Tail(t)) ELSE IsUnsignedNumeral(t)

\* Hundredths of an unsigned numeral.
UnsignedNumeralValue(t) ==
  IF IsDigits(t) THEN DigitsValue(t) * 100
  ELSE LET j == CHOOSE k \in 1..Len(t) : t[k] = 46
       IN  DigitsValue(SubSeq(t, 1, j - 1)) * 100 + FractionHundredths(SubSeq(t, j + 1, Len(t)))

NumeralValue(t) ==
  IF t[1] = 45 THEN 0 - UnsignedNumeralValue(Tail(t)) ELSE UnsignedNumeralValue(t)

OpeningCleaned == Strip(RemoveCommas(opening_raw))

\* The lengths of the numerals the text begins with.
LeadingNumerals == {k \in 1..Len(OpeningCleaned) : IsNumeral(SubSeq(OpeningCleaned, 1, k))}

LeadingNumeral ==
  SubSeq(OpeningCleaned, 1, CHOOSE k \in LeadingNumerals : \A j \in LeadingNumerals : j <= k)

\* The Dr/Cr marker ("dr", "cr" or "") that follows the leading numeral,
\* whitespace allowed between them.
MarkerAfterNumeral ==
  IF \E k \in LeadingNumerals : \E n \in k..Len(OpeningCleaned) - 2 :
       /\ \A i \in k + 1..n : IsSpace(OpeningCleaned[i])
       /\ LowerCodes(SubSeq(OpeningCleaned, n + 1, n + 2)) = <<100, 114>>
  THEN "dr"
  ELSE IF \E k \in LeadingNumerals : \E n \in k..Len(OpeningCleaned) - 2 :
       /\ \A i \in k + 1..n : IsSpace(OpeningCleaned[i])
       /\ LowerCodes(SubSeq(OpeningCleaned, n + 1, n + 2)) = <<99, 114>>
  THEN "cr"
  ELSE ""

\* C11: an opening-balance text whose number is followed by Dr or Cr (any
\* letter case) normalizes to +|number| for Dr and -|number| for Cr, whatever
\* sign the number is written with.
C11_DrCrMarkerDecidesSign ==
  (opening_norm.done /\ LeadingNumerals # {} /\ MarkerAfterNumeral # "") =>
    opening_norm.value =
      IF MarkerAfterNumeral = "dr" THEN Abs(NumeralValue(LeadingNumeral))
      ELSE 0 - Abs(NumeralValue(LeadingNumeral))

\* A number written with "-" and marked Dr came out positive.
C11_Witness ==
  /\ opening_norm.done
  /\ LeadingNumerals # {}
  /\ MarkerAfterNumeral = "dr"
  /\ NumeralValue(LeadingNumeral) < 0
  /\ opening_norm.value > 0

\* C12: an opening-balance text that begins with a number and has no Dr/Cr
\* marker normalizes to the negation of the number; a text that does not begin
\* with a number (the empty text included) normalizes to 0.
C12_UnmarkedIsNegated ==
  opening_norm.done =>
    /\ LeadingNumerals = {} => opening_norm.value = 0
    /\ (LeadingNumerals # {} /\ MarkerAfterNumeral = "")
         => opening_norm.value = 0 - NumeralValue(LeadingNumeral)

\* The text "-5" came out as 5.
C12_Witness ==
  /\ opening_norm.done
  /\ OpeningCleaned = <<45, 53>>
  /\ opening_norm.value = 500

(***************************************************************************)
(* Reference definitions for the classification properties, on the fields  *)
(* of the GROUP element as the document gives them.                        *)
(***************************************************************************)
NodeNature == LowerCodes(Strip(group_node.NATUREOFGROUP))

\* group name + parent name
NodeLabels == LowerCodes(Strip(group_node.NAME) \o <<32>> \o Strip(group_node.PARENT))

\* What an explicit flag says: "yes", "no", or "" when it says neither.
FlagSays(flag) ==
  IF LowerCodes(Strip(flag)) \in {Keywords.yes, Keywords.y, Keywords.true} THEN "yes"
  ELSE IF LowerCodes(Strip(flag)) \in {Keywords.no, Keywords.n, Keywords.false} THEN "no"
  ELSE ""

\* The first match in the priority Asset, Liability, Income, Expense; "" when
\* the text holds none of the keywords.
KeywordType(text) ==
  IF Contains(text, Keywords.asset) THEN "Asset"
  ELSE IF Contains(text, Keywords.liabilit) THEN "Liability"
  ELSE IF Contains(text, Keywords.income) \/ Contains(text, Keywords.revenue)
            \/ Contains(text, Keywords.sale)
       THEN "Income"
  ELSE IF Contains(text, Keywords.expense) \/ Contains(text, Keywords.purchase)
       THEN "Expense"
  ELSE ""

\* C13: the type is the first keyword match on the nature in the priority
\* Asset, Liability, Income, Expense; when the nature matches nothing, the
\* first match of the same keywords in the same priority on group name +
\* parent name; otherwise Asset.
C13_TypeByKeywordPriority ==
  group_row.done =>
    group_row.Type =
      IF KeywordType(NodeNature) # "" THEN KeywordType(NodeNature)
      ELSE IF KeywordType(NodeLabels) # "" THEN KeywordType(NodeLabels)
      ELSE "Asset"

\* C14: an explicit isRevenue flag decides (yes: P&L, no: Balance Sheet)
\* whatever the nature says; without such a flag a nature containing
\* "income", "expense", "purchase" or "sale" gives P&L; everything else gives
\* Balance Sheet.
C14_RevenueFlagThenNature ==
  group_row.done =>
    group_row.BS_or_PnL =
      IF FlagSays(group_node.ISREVENUE) = "yes" THEN "P&L"
      ELSE IF FlagSays(group_node.ISREVENUE) = "no" THEN "Balance Sheet"
      ELSE IF Contains(NodeNature, Keywords.income) \/ Contains(NodeNature, Keywords.expense)
                \/ Contains(NodeNature, Keywords.purchase) \/ Contains(NodeNature, Keywords.sale)
           THEN "P&L"
      ELSE "Balance Sheet"

\* A group flagged "No" whose nature names income is on the Balance Sheet.
C14_Witness ==
  /\ group_row.done
  /\ FlagSays(group_node.ISREVENUE) = "no"
  /\ Contains(NodeNature, Keywords.income)
  /\ group_row.BS_or_PnL = "Balance Sheet"

\* C15: an explicit flag is returned as it is; without one the answer is Yes
\* exactly when the nature contains "direct", "purchase", "sales" or
\* "trading", or else group name + parent name contains "sales", "purchase",
\* "direct income" or "direct expense"; otherwise No.
C15_GrossProfitFlagThenKeywords ==
  group_row.done =>
    group_row.AffectsGrossProfit =
      IF FlagSays(group_node.AFFECTSGROSSPROFIT) = "yes" THEN "Yes"
      ELSE IF FlagSays(group_node.AFFECTSGROSSPROFIT) = "no" THEN "No"
      ELSE IF \/ \E token \in {Keywords.direct, Keywords.purchase, Keywords.sales,
                               Keywords.trading} : Contains(NodeNature, token)
              \/ \E token \in {Keywords.sales, Keywords.purchase, Keywords.direct_income,
                               Keywords.direct_expense} : Contains(NodeLabels, token)
           THEN "Yes"
      ELSE "No"

(***************************************************************************)
(* Reference definitions for the client-call properties.                   *)
(***************************************************************************)
MasterCall == call.operation \in {"fetch_ledger_master", "fetch_group_master"}

\* The same names, each as often, in the order of their lower-cased text.
SortedRowsOf(rows, items) ==
  /\ Len(rows) = Len(items)
  /\ \A n \in LedgerNames :
       Cardinality({i \in 1..Len(rows) : rows[i] = n})
         = Cardinality({i \in 1..Len(items) : items[i] = n})
  /\ \A i \in 1..(Len(rows) - 1) : ~StrLowerLess(rows[i + 1], rows[i])

\* C16: a master fetch sends the fallback request exactly when the primary
\* response is a document without rows, and then returns the fallback's rows;
\* with rows in the primary response it sends one request and returns them;
\* when both documents have no rows it raises; it never returns an empty list.
C16_FallbackWhenPrimaryHasNoRows ==
  MasterCall =>
    /\ call.requests_sent = (IF tally.primary.kind = "no_rows" THEN 2 ELSE 1)
    /\ tally.primary.kind = "rows"
         => call.status = "ok" /\ SortedRowsOf(call.rows, tally.primary.items)
    /\ (tally.primary.kind = "no_rows" /\ tally.fallback.kind = "rows")
         => call.status = "ok" /\ SortedRowsOf(call.rows, tally.fallback.items)
    /\ (tally.primary.kind = "no_rows" /\ tally.fallback.kind = "no_rows")
         => call.status = "error"
    /\ call.status = "ok" => call.rows # <<>>

\* fetch_ledger_master got no rows from the primary request and returned the
\* two rows of the fallback, sorted.
C16_Witness ==
  /\ call.operation = "fetch_ledger_master"
  /\ tally.primary.kind = "no_rows"
  /\ tally.fallback.items = <<"Cash", "bank">>
  /\ call.status = "ok"
  /\ call.rows = <<"bank", "Cash">>
  /\ call.requests_sent = 2

\* C17: in each of the four fetch operations a failed HTTP call (refused,
\* timeout, non-2xx) raises the connection-failed error at once: no request
\* follows it and no list is returned.
C17_FailedCallRaisesConnectionError ==
  /\ (call.operation # "none" /\ tally.primary.kind \in FailedKinds)
       => /\ call.status = "error"
          /\ call.error = "ConnectionError"
          /\ call.requests_sent = 1
  /\ (call.requests_sent = 2 /\ tally.fallback.kind \in FailedKinds)
       => /\ call.status = "error"
          /\ call.error = "ConnectionError"

\* C18: on a body that is empty or not parseable XML fetch_daybook returns an
\* empty list and raises nothing; fetch_ledger_master and fetch_group_master
\* raise and return nothing (also when it is the fallback's body).
C18_UnparseableBody ==
  /\ (call.operation = "fetch_daybook" /\ tally.primary.kind \in {"empty", "blank", "malformed"})
       => call.status = "ok" /\ call.rows = <<>>
  /\ (MasterCall /\ tally.primary.kind \in {"empty", "blank", "malformed"})
       => call.status = "error" /\ call.rows = <<>>
  /\ (MasterCall /\ call.requests_sent = 2
        /\ tally.fallback.kind \in {"empty", "blank", "malformed"})
       => call.status = "error" /\ call.rows = <<>>

\* fetch_group_master raised on an empty body.
C18_Witness ==
  /\ call.operation = "fetch_group_master"
  /\ tally.primary.kind = "empty"
  /\ call.status = "error"
  /\ call.error = "RuntimeError"

(***************************************************************************)
(* Reference definitions for the date windows of the trial balances.       *)
(***************************************************************************)
LedgerLines(ledger) == {l \in Lines : LineEntry(l).ledger_name = ledger}

\* The lines of a ledger dated within [fiscalYearStart(from), to].
SpanLines(ledger, from_date, to_date) ==
  {l \in LedgerLines(ledger) : InFiscalSpan(LineDate(l), from_date, to_date)}

\* C19: in the Dynamic Trial Balance a line dated d within
\* [fiscalYearStart(from), to] is counted once, in the pre-window movement
\* when d < from and in the in-window movement when d >= from; a line dated
\* before fiscalYearStart(from) or after to is counted in neither.
C19_WindowsPartitionTheSpan ==
  TbOk =>
    \A r \in TbRows :
      /\ r.T2DynamicOB =
           NettOf({l \in SpanLines(r.LedgerName, tb.from_date, tb.to_date) :
                    LineDate(l) < tb.from_date})
      /\ r.T2DynamicCLB =
           NettOf({l \in SpanLines(r.LedgerName, tb.from_date, tb.to_date) :
                    LineDate(l) >= tb.from_date})
      /\ r.T2DynamicOB + r.T2DynamicCLB =
           NettOf(SpanLines(r.LedgerName, tb.from_date, tb.to_date))

\* A built table with a ledger that has a line on the window's first day,
\* counted in the in-window movement, and a line outside the span (before the
\* fiscal year's start or after the window's end).
C19_Witness ==
  /\ TbOk
  /\ \E r \in TbRows :
       /\ \E l \in LedgerLines(r.LedgerName) : LineDate(l) = tb.from_date
       /\ \E l \in LedgerLines(r.LedgerName) :
            ~InFiscalSpan(LineDate(l), tb.from_date, tb.to_date)
       /\ r.T2DynamicCLB # 0

\* C20: in the YTD Trial Balance Nett YTD of a ledger is the sum of Nett over
\* all the voucher lines of the ledger whatever their dates, YTDCLB is
\* OpeningBalance + Nett YTD, and the build raises on an empty voucher table.
C20_YtdSumsEveryLine ==
  /\ YtdOk =>
       \A y \in YtdRows :
         /\ y.NettYTD = NettOf(LedgerLines(y.LedgerName))
         /\ y.YTDCLB = y.OpeningBalance + y.NettYTD
  /\ (ytd.status # "none" /\ Lines = {}) => ytd.status = "error"

\* A built table with a ledger whose lines lie in two fiscal years, with a
\* non-zero movement and a non-zero opening balance.
C20_Witness ==
  /\ YtdOk
  /\ \E y \in YtdRows :
       /\ y.NettYTD # 0
       /\ y.OpeningBalance # 0
       /\ \E l, k \in LedgerLines(y.LedgerName) :
            _fiscal_year_start(LineDate(l)) < _fiscal_year_start(LineDate(k))

(***************************************************************************)
(* Reference definitions for the overview KPIs: sums over the rows of the  *)
(* trial balance, taken as a set of row numbers.                           *)
(***************************************************************************)
OverviewRowNumbers == 1..Len(overview_tb)

MovementOf(rows) == SetSum({<<i, overview_tb[i].NettYTD>> : i \in rows})

\* The group "Purchase Accounts", in whatever letter case it is written.
InPurchaseAccounts(i) ==
  LowerCodes(overview_tb[i].GroupName) = Labels.purchase_accounts

IsType(i, type) == LowerCodes(overview_tb[i].Type) = LowerCodes(type)

AffectsIs(i, answer) == LowerCodes(overview_tb[i].AffectsGrossProfit) = LowerCodes(answer)

RevenueRows == {i \in OverviewRowNumbers : IsType(i, Labels.Income) /\ AffectsIs(i, Labels.Yes)}

IndirectIncomeRows ==
  {i \in OverviewRowNumbers : IsType(i, Labels.Income) /\ AffectsIs(i, Labels.No)}

DirectExpenseRows ==
  {i \in OverviewRowNumbers :
     IsType(i, Labels.Expense) /\ AffectsIs(i, Labels.Yes) /\ ~InPurchaseAccounts(i)}

IndirectExpenseRows ==
  {i \in OverviewRowNumbers : IsType(i, Labels.Expense) /\ AffectsIs(i, Labels.No)}

PurchaseRows == {i \in OverviewRowNumbers : InPurchaseAccounts(i)}

\* C21: grossProfit = revenue - directExpense - cogs and netProfit =
\* grossProfit + indirectIncome - indirectExpense, where revenue and
\* indirectIncome are the negated movements of the Income rows that affect and
\* do not affect gross profit, directExpense and indirectExpense the movements
\* of the Expense rows that do (outside "Purchase Accounts") and do not, and
\* cogs = openingStock + movement of "Purchase Accounts" - closingStock.
C21_OverviewKpis ==
  kpis.done =>
    /\ kpis.revenue = 0 - MovementOf(RevenueRows)
    /\ kpis.indirect_income = 0 - MovementOf(IndirectIncomeRows)
    /\ kpis.direct_expense = MovementOf(DirectExpenseRows)
    /\ kpis.indirect_expense = MovementOf(IndirectExpenseRows)
    /\ kpis.cogs = stock.opening_stock + MovementOf(PurchaseRows) - stock.closing_stock
    /\ kpis.gross_profit = kpis.revenue - kpis.direct_expense - kpis.cogs
    /\ kpis.net_profit = kpis.gross_profit + kpis.indirect_income - kpis.indirect_expense

\* Rendered cards of a table with a direct expense row in "Purchase Accounts"
\* beside a row of direct income, with stock values entered.
C21_Witness ==
  /\ kpis.done
  /\ \E i \in PurchaseRows : IsType(i, Labels.Expense) /\ AffectsIs(i, Labels.Yes)
  /\ RevenueRows # {}
  /\ stock.opening_stock # 0
  /\ stock.closing_stock # 0
  /\ kpis.revenue # 0
  /\ kpis.cogs # stock.opening_stock - stock.closing_stock

\* C28: whatever the GroupName, Type and AffectsGrossProfit of a row, its
\* Nett YTD is counted in at most one of revenue, directExpense, purchases,
\* indirectIncome and indirectExpense: the five sums together hold the
\* movement of every counted row once, and so does netProfit.
C28_RowCountedAtMostOnce ==
  kpis.done =>
    LET counted == RevenueRows \cup IndirectIncomeRows \cup DirectExpenseRows
                     \cup IndirectExpenseRows \cup PurchaseRows
    IN  /\ (0 - kpis.revenue) + kpis.direct_expense + kpis.purchases_ytd
             + (0 - kpis.indirect_income) + kpis.indirect_expense
           = MovementOf(counted)
        /\ kpis.net_profit
           = stock.closing_stock - stock.opening_stock - MovementOf(counted)

(***************************************************************************)
(* Reference definitions for the fiscal year properties.                   *)
(***************************************************************************)
IsAprilFirst(d) == DateMonth(d) = 4 /\ d % 100 = 1

\* C22: _fiscal_year_start(d) is April 1 of d's year when d's month is 4 or
\* later and April 1 of the previous year otherwise (2024-03-15 gives
\* 2023-04-01, 2024-04-01 gives 2024-04-01); hence it is not after d and d is
\* before April 1 of the following year.
C22_FiscalYearStart ==
  fy_start.done =>
    /\ IsAprilFirst(fy_start.value)
    /\ DateMonth(fy_anchor) >= 4 => DateYear(fy_start.value) = DateYear(fy_anchor)
    /\ DateMonth(fy_anchor) < 4 => DateYear(fy_start.value) = DateYear(fy_anchor) - 1
    /\ fy_start.value <= fy_anchor
    /\ fy_anchor < MkDate(DateYear(fy_start.value) + 1, 4, 1)
    /\ fy_anchor = 20240315 => fy_start.value = 20230401
    /\ fy_anchor = 20240401 => fy_start.value = 20240401

\* The fiscal year start of the last day of a fiscal year, 31 March.
C22_Witness ==
  /\ fy_start.done
  /\ DateMonth(fy_anchor) = 3
  /\ fy_anchor % 100 = 31
  /\ DateYear(fy_start.value) = DateYear(fy_anchor) - 1

\* C23: _fiscal_year_start is idempotent: applied to a date it returned, it
\* returns that date.
C23_FiscalYearStartIdempotent ==
  fy_again.done => fy_again.value = fy_start.value

\* The function applied twice, starting from a date of January to March.
C23_Witness ==
  /\ fy_again.done
  /\ DateMonth(fy_anchor) < 4
  /\ fy_start.value # fy_anchor

(***************************************************************************)
(* Reference definitions for the XML sanitizer properties: the characters  *)
(* of the input that are no control characters, and the place each of them *)
(* has in the output when every "&" before it takes five places.           *)
(***************************************************************************)
ControlCodes == (0..8) \cup {11, 12} \cup (14..31) \cup {127}

KeptOfInput == SelectSeq(raw_resp.text, LAMBDA c : c \notin ControlCodes)

AmpersandsBefore(k) == Cardinality({j \in 1..(k - 1) : KeptOfInput[j] = 38})

PlaceInOutput(k) == k + 4 * AmpersandsBefore(k)

\* C24: _clean_tally_xml returns "" for an empty or null input; otherwise the
\* output holds no control character 0x00-0x08, 0x0B, 0x0C, 0x0E-0x1F, 0x7F,
\* every "&" of the input appears as "&amp;" (also one that began an entity),
\* and the other characters are kept in their order.
C24_CleanTallyXml ==
  clean_resp.done =>
    /\ (raw_resp.is_none \/ raw_resp.text = <<>>) => clean_resp.text = <<>>
    /\ \A i \in 1..Len(clean_resp.text) : clean_resp.text[i] \notin ControlCodes
    /\ Len(clean_resp.text) = PlaceInOutput(Len(KeptOfInput) + 1) - 1
    /\ \A k \in 1..Len(KeptOfInput) :
         /\ clean_resp.text[PlaceInOutput(k)] = KeptOfInput[k]
         /\ KeptOfInput[k] = 38 =>
              SubSeq(clean_resp.text, PlaceInOutput(k), PlaceInOutput(k) + 4)
                = <<38, 97, 109, 112, 59>>

\* A cleaned text that held the entity "&lt;"; and one with an ampersand
\* between a control character and a line break.
C24_Witness ==
  /\ clean_resp.done
  /\ \/ raw_resp.text = <<38, 108, 116, 59>>
     \/ raw_resp.text = <<127, 38, 11, 10>>
  /\ Len(clean_resp.text) > Len(KeptOfInput)

(***************************************************************************)
(* Reference definitions for the order of the trial-balance rows.          *)
(***************************************************************************)
\* a comes before b in ordinal order: at the first place where they differ a
\* has the smaller code point, or a is a proper prefix of b.
OrdinalBefore(a, b) ==
  LET x == CodePoints[a]
      y == CodePoints[b]
  IN  \/ \E n \in 1..Len(x) :
           /\ n <= Len(y)
           /\ x[n] < y[n]
           /\ \A m \in 1..(n - 1) : x[m] = y[m]
      \/ Len(x) < Len(y) /\ \A m \in 1..Len(x) : x[m] = y[m]

\* C25: the rows of the Dynamic and of the YTD Trial Balance are sorted by
\* ledger name in ascending ordinal (case-sensitive) order and no ledger name
\* appears twice, whatever the order or duplication of the Ledger Master rows.
C25_RowsSortedByOrdinalName ==
  /\ TbOk =>
       \A i \in 1..(Len(tb.tb_df) - 1) :
         OrdinalBefore(tb.tb_df[i].LedgerName, tb.tb_df[i + 1].LedgerName)
  /\ YtdOk =>
       \A i \in 1..(Len(ytd.ytd_df) - 1) :
         OrdinalBefore(ytd.ytd_df[i].LedgerName, ytd.ytd_df[i + 1].LedgerName)

\* Both tables built from a Ledger Master that lists "bank" before "Cash"
\* (its own order, by lower-cased name).
C25_Witness ==
  /\ TbOk
  /\ YtdOk
  /\ Len(ledger_rows) = 2
  /\ ledger_rows[1].LedgerName = "bank"
  /\ ledger_rows[2].LedgerName = "Cash"
  /\ Len(tb.tb_df) = 2
  /\ Len(ytd.ytd_df) = 2

(***************************************************************************)
(* Reference definitions for the order of the returned entries.            *)
(***************************************************************************)
\* The entry elements of a voucher element under one entry-list tag whose
\* amount is not zero, in document order.
SurvivingUnder(v, tag) ==
  SelectSeq(v.entries, LAMBDA e : e.tag = tag /\ ParsedAmount(e) # 0)

ExpectedUnder(v, tag) ==
  [j \in 1..Len(SurvivingUnder(v, tag)) |-> ExpectedEntry(SurvivingUnder(v, tag)[j])]

\* C26: no returned voucher has an empty entry list: a voucher element whose
\* entries are all dropped (zero amount) or that has no entry element is
\* dropped, and every other voucher element with a valid date is returned
\* with its surviving entries in document order per entry-list tag.
C26_NoEmptyVoucher ==
  FetchedOk =>
    /\ \A k \in 1..Len(fetched.vouchers) : fetched.vouchers[k].ledger_entries # <<>>
    /\ Len(fetched.vouchers) = Len(Survivors)
    /\ \A k \in 1..Len(fetched.vouchers) :
         fetched.vouchers[k].ledger_entries
           = ExpectedUnder(Survivors[k], "ALLLEDGERENTRIES.LIST")
               \o ExpectedUnder(Survivors[k], "LEDGERENTRIES.LIST")
               \o ExpectedUnder(Survivors[k], "ALLINVENTORYENTRIES.LIST")
               \o ExpectedUnder(Survivors[k], "INVENTORYENTRIES.LIST")

\* One voucher returned out of two elements with valid dates: the other had no
\* entry or only entries of amount zero; the returned one had an inventory
\* entry in front of a ledger entry.
C26_Witness ==
  /\ FetchedOk
  /\ Len(response.voucher_elements) = 2
  /\ \A i \in 1..2 : WellFormedDate(response.voucher_elements[i].DATE)
  /\ Len(fetched.vouchers) = 1
  /\ Len(Survivors[1].entries) = 2
  /\ Survivors[1].entries[1].tag = "ALLINVENTORYENTRIES.LIST"
  /\ Survivors[1].entries[2].tag = "ALLLEDGERENTRIES.LIST"
  /\ Len(fetched.vouchers[1].ledger_entries) = 2
  /\ fetched.vouchers[1].ledger_entries[1].ledger_name = "Cash"

(***************************************************************************)
(* Reference definitions for the deemed-positive flag: the payload that    *)
(* differs from the response only in that every entry carries one and the  *)
(* same ISDEEMEDPOSITIVE text.                                             *)
(***************************************************************************)
WithDeemed(d) ==
  [response EXCEPT !.voucher_elements =
     [i \in 1..Len(response.voucher_elements) |->
        [response.voucher_elements[i] EXCEPT !.entries =
           [j \in 1..Len(response.voucher_elements[i].entries) |->
              [response.voucher_elements[i].entries[j] EXCEPT !.ISDEEMEDPOSITIVE = d]]]]]

\* "", "Yes", "No"
DeemedVariants == {<<>>, <<89, 101, 115>>, <<78, 111>>}

\* C30: two Day Book payloads that differ only in the ISDEEMEDPOSITIVE values
\* of their entries yield identical voucher lists: the outcome for a payload
\* is the outcome for the same payload with the flags all absent, all "Yes"
\* or all "No".
C30_DeemedFlagIgnored ==
  fetched.status # "none" =>
    \A d \in DeemedVariants : fetch_daybook(WithDeemed(d)) = fetched

\* Vouchers returned for a payload holding an entry of non-zero amount flagged
\* "Yes" and an entry of amount zero flagged "Yes".
C30_Witness ==
  /\ FetchedOk
  /\ fetched.vouchers # <<>>
  /\ \E i \in 1..Len(response.voucher_elements) :
       /\ WellFormedDate(response.voucher_elements[i].DATE)
       /\ \E j \in 1..Len(response.voucher_elements[i].entries) :
            /\ ParsedAmount(response.voucher_elements[i].entries[j]) > 0
            /\ response.voucher_elements[i].entries[j].ISDEEMEDPOSITIVE = <<89, 101, 115>>
       /\ \E j \in 1..Len(response.voucher_elements[i].entries) :
            /\ ParsedAmount(response.voucher_elements[i].entries[j]) = 0
            /\ response.voucher_elements[i].entries[j].ISDEEMEDPOSITIVE = <<89, 101, 115>>

(***************************************************************************)
(* Reference definitions for the Day Book load.                            *)
(***************************************************************************)
FullLoad == loaded.caller \in {"main", "sync_data"}

\* C27: loading the Day Book with start = None and end = None ("Load Full Day
\* Book" of the dashboard, DataManager.sync_data) sends the request and, when
\* Tally answers it, returns the vouchers of the answer; it does not fail
\* before any request is sent.
C27_FullLoadReturnsHistory ==
  FullLoad =>
    /\ loaded.call.requests_sent = 1
    /\ tally.primary.kind = "rows" =>
         /\ loaded.call.status = "ok"
         /\ Len(loaded.call.rows) = Len(tally.primary.items)

(***************************************************************************)
(* Reference definitions for the Profit & Loss statement.                  *)
(***************************************************************************)
StatementRowNumbers == 1..Len(statement_tb)

\* The amount a row is displayed with: an income is shown positive.
DisplayedAmount(i) ==
  IF LowerCodes(statement_tb[i].Type) = LowerCodes(Labels.Income)
  THEN 0 - statement_tb[i].T2DynamicCLB
  ELSE statement_tb[i].T2DynamicCLB

DisplayedSum(rows) == SetSum({<<i, DisplayedAmount(i)>> : i \in rows})

IncomeRowNumbers ==
  {i \in StatementRowNumbers : LowerCodes(statement_tb[i].Type) = LowerCodes(Labels.Income)}

ExpenseRowNumbers ==
  {i \in StatementRowNumbers : LowerCodes(statement_tb[i].Type) = LowerCodes(Labels.Expense)}

NetProfitLine == pnl.lines[Len(pnl.lines)]

\* C29: the "Net Profit" line of the Profit & Loss statement is the sum of the
\* displayed amounts of all Income rows minus the sum of the displayed amounts
\* of all Expense rows, each row counted once.
C29_NetProfitCountsEachRowOnce ==
  pnl.done =>
    /\ NetProfitLine.Line = StatementLabels.NetProfit
    /\ NetProfitLine.Amount = DisplayedSum(IncomeRowNumbers) - DisplayedSum(ExpenseRowNumbers)

====
